---- MODULE Spec2Model ----
(***************************************************************************)
(* Order lifecycle of the DecoTeen ordering bot                            *)
(* (src/payment_data/bot/order_server.py, OrderManagementServer).          *)
(*                                                                         *)
(* The server runs on one asyncio event loop.  A coroutine keeps the loop  *)
(* until it awaits something that really suspends: the Telegram sends      *)
(* (bot.send_message, bot.get_chat).  _load_order, _save_order and the     *)
(* HesabfaAPI methods are "async def" but do blocking file and HTTP I/O    *)
(* with no await inside, so awaiting them never yields the loop.  The      *)
(* variable running holds the call that owns the loop; the other calls     *)
(* and the background tasks move only while running = 0.                   *)
(*                                                                         *)
(* The module also holds the price computation of bot/pricing.py with its  *)
(* floating-point arithmetic, the cart files of CartManager and the        *)
(* schedule store of PaymentScheduler.  Each has its own specification:    *)
(* Spec (order server, working storage), SpecFaulty (failing writes and    *)
(* unchecked arguments), SpecPricing, SpecCart, SpecSched (the schedule     *)
(* store alone), SpecReminders (the store and the daily scan) and          *)
(* SpecThreads (the methods step by step, with the reminder thread).       *)
(***************************************************************************)
EXTENDS Integers, Sequences, FiniteSets, TLC

\* ------------------------------------------------------------------ bounds
\* Number of create_order / update_order_status calls in one behaviour.
MaxCalls == 2

\* Largest quantity of one cart item.
MaxQuantity == 2

\* Number of payment schedules in one behaviour.
MaxSchedules == 2

\* Largest payment_number passed to mark_payment_made.
MaxPaymentNumber == 4

\* The last day of a behaviour.
MaxDay == 61

\* PaymentScheduler calls that may be between their load and their return.
MaxInFlight == 2

\* --------------------------------------------------------------- constants
\* timedelta(days=30): the days from one installment to the next.
DaysToInstallment == 30

\* max_retries of _notify_customer.
MaxRetries == 3

\* class OrderStatus
OrderStatus ==
    {"pending", "contacted", "confirmed", "preparing", "ready",
     "shipped", "delivered", "completed", "cancelled"}

\* The two statuses the specification calls terminal.
TerminalStatus == {"completed", "cancelled"}

\* Outcomes of one _save_order: the file is written, open() raises and the
\* file is left as it was, or json.dump raises after open(..., 'w') has
\* truncated the file.
SaveOutcome == {"ok", "open_failed", "write_failed"}

\* Outcomes of _generate_order_id: the counter file is read and rewritten,
\* or an exception sends it to the timestamp fallback with the file as it
\* was.
CounterOutcome == {"ok", "failed"}

\* Outcomes of the calls _process_hesabfa_invoice makes to the bridge:
\* create_invoice returns success, returns success:false, or an exception
\* leaves the try block before the order is reloaded.
BridgeOutcome == {"success", "failure", "raises"}

VARIABLES
    orders,      \* order_data/order_<id>.json, by order id
    counter,     \* order_data/order_counter.txt
    clock,       \* the last reading of datetime.now()
    bot,         \* self.bot is set
    calls,       \* the create_order / update_order_status calls, by call number
    running,     \* the call that owns the event loop, 0 when none does
    tasks,       \* asyncio tasks of _process_hesabfa_invoice not yet run
    invoiceSeq,  \* invoices the external bookkeeping system has issued
    carts,       \* cart_data/cart_<user_id>.json, by user id
    schedules,   \* payment_data/payment_schedules.json, by schedule id
    returned,    \* what the last PaymentScheduler call that wrote returned
    inflight,    \* PaymentScheduler calls between their load and their return
    scanned,     \* the last get_pending_reminders call: its date and its list
    user_sessions, \* BotHandlers.user_sessions, by user id
    handled      \* the callback button_callback dispatched last

vars == <<orders, counter, clock, bot, calls, running, tasks, invoiceSeq,
          carts, schedules, returned, inflight, scanned, user_sessions,
          handled>>

\* The state of the chat handlers.
chat == <<user_sessions, handled>>

\* The schedule store and the calls of PaymentScheduler.
scheduler == <<schedules, returned, inflight, scanned>>

\* The stores the order server never touches.
outside == <<carts, scheduler, chat>>

\* Order ids.  A positive number n is the counter id f"{counter:05d}"; a
\* negative number -(1 + t) is the fallback id "ORD" + %H%M%S of a clock
\* reading t, which keeps the time of day and nothing else.
CounterIds == 1..MaxCalls
FallbackId(now) == -(1 + now)
FallbackIds == {FallbackId(t) : t \in 0..MaxCalls}
OrderIds == CounterIds \cup FallbackIds

\* The ids the checkout handlers make up for a payment schedule,
\* f"ORDER_{user_id}_{seconds}": the number HandlerIdBase * user_id + seconds
\* stands for it.
HandlerIdBase == 1000
HandlerOrderId(user_id, now) == HandlerIdBase * user_id + now

\* The users of the bot.
Users == {1, 2}

\* ----------------------------------------------------------------- floats
\* A Python float written as float.hex() writes it: digits are the 14
\* hexadecimal digits of the 53-bit significand, most significant first,
\* and the value is significand * 2^(exp - 52).  (0.3).hex() is
\* 0x1.3333333333333p-2.
FloatZero == [digits |-> <<0, 0, 0, 0, 0, 0, 0, 0, 0, 0, 0, 0, 0, 0>>, exp |-> 0]

Reverse(seq) == [i \in 1..Len(seq) |-> seq[Len(seq) + 1 - i]]

\* n times the number whose hexadecimal digits, least significant first,
\* are digits: the digits of the exact product, least significant first.
RECURSIVE MulDigits(_, _, _)
MulDigits(n, digits, carry) ==
    IF digits = <<>>
    THEN IF carry = 0 THEN <<>>
         ELSE <<carry % 16>> \o MulDigits(n, <<>>, carry \div 16)
    ELSE LET t == n * Head(digits) + carry
         IN <<t % 16>> \o MulDigits(n, Tail(digits), t \div 16)

\* Bit j of the number with hexadecimal digits p, least significant first.
Bit(p, j) ==
    IF j < 0 \/ j \div 4 >= Len(p) THEN 0
    ELSE (p[j \div 4 + 1] \div 2^(j % 4)) % 2

\* The position of the leading 1 of p, -1 when p is zero.
TopBit(p) ==
    LET ones == {j \in 0..(4 * Len(p) - 1) : Bit(p, j) = 1}
    IN IF ones = {} THEN -1 ELSE CHOOSE j \in ones : \A k \in ones : k <= j

\* The number made of bits lo..hi of p.
RECURSIVE BitsValue(_, _, _)
BitsValue(p, lo, hi) ==
    IF hi < lo THEN 0 ELSE Bit(p, lo) + 2 * BitsValue(p, lo + 1, hi)

\* int(n * x) for an int n >= 0 and a float x >= 0 with n * x < 2^31.
\* Python converts n to float (exactly, n < 2^53) and the product is the
\* exact product rounded to 53 significant bits, ties to even; int()
\* truncates.  The rounded product passes the next integer exactly when
\* rounding goes up and every kept bit below the binary point is 1.
IntOfProduct(n, x) ==
    LET p == MulDigits(n, Reverse(x.digits), 0)
        point == 52 - x.exp
        top == TopBit(p)
        guard == top - 53
        roundUp == /\ guard >= 0
                   /\ Bit(p, guard) = 1
                   /\ \/ Bit(p, guard + 1) = 1
                      \/ \E j \in 0..(guard - 1) : Bit(p, j) = 1
        carries == \A j \in (guard + 1)..(point - 1) : Bit(p, j) = 1
    IN BitsValue(p, point, top) + (IF roundUp /\ carries THEN 1 ELSE 0)

\* ---------------------------------------------------------------- pricing
\* PricingManager.discount_rates: 0.30 for cash, 0.25 for the deferred
\* plans.  percent is the rate as the decimal fraction percent/100 it is
\* written as; digits and exp are the float the program computes with.
CashRate == [percent |-> 30] @@ [digits |-> <<1, 3, 3, 3, 3, 3, 3, 3, 3, 3, 3, 3, 3, 3>>, exp |-> -2]
DeferredRate == [percent |-> 25] @@ [digits |-> <<1, 0, 0, 0, 0, 0, 0, 0, 0, 0, 0, 0, 0, 0>>, exp |-> -2]

\* discount_rate = 0, the default of create_order.
NoDiscount == [percent |-> 0] @@ FloatZero

\* The literal 0.09 of calculate_tax.
TaxRate == [percent |-> 9] @@ [digits |-> <<1, 7, 0, 10, 3, 13, 7, 0, 10, 3, 13, 7, 0, 10>>, exp |-> -4]

\* One element of cart_items: product_id stands for the pair of product_id
\* and size the cart identifies an item by.
CartItem(product_id, price, quantity) ==
    [product_id |-> product_id, price |-> price, quantity |-> quantity]

\* calculate_subtotal
RECURSIVE CalculateSubtotal(_)
CalculateSubtotal(cart_items) ==
    IF cart_items = <<>> THEN 0
    ELSE Head(cart_items).price * Head(cart_items).quantity
             + CalculateSubtotal(Tail(cart_items))

\* calculate_discount: int(subtotal * discount_rate)
CalculateDiscount(subtotal, discount_rate) == IntOfProduct(subtotal, discount_rate)

\* calculate_tax: int(amount * 0.09)
CalculateTax(amount) == IntOfProduct(amount, TaxRate)

\* The "pricing" object of create_order, lines 101-119.
Pricing(cart_items, discount_rate) ==
    LET subtotal == CalculateSubtotal(cart_items)
        discount == CalculateDiscount(subtotal, discount_rate)
        tax == CalculateTax(subtotal - discount)
    IN [subtotal |-> subtotal,
        discount_rate |-> discount_rate,
        discount |-> discount,
        tax |-> tax,
        total |-> subtotal - discount + tax]

\* ------------------------------------------------------------- order files
NoFile == [kind |-> "absent"]
CorruptFile == [kind |-> "corrupt"]

IsOrder(f) == f.kind = "order"

\* One element of status_history.  admin is "" where the code writes no
\* admin key (the entry create_order writes).
HistoryEntry(status, admin) == [status |-> status, admin |-> admin]

\* The admin_name argument of call c: every call is made under its own name.
AdminName(c) == ToString(c)

\* Mutant of NewOrder: the history starts with two entries.
NewOrderTwoEntries(id, user_id, cart_items, discount_rate, now) ==
    [kind |-> "order",
     order_id |-> id,
     user_id |-> user_id,
     cart_items |-> cart_items,
     pricing |-> Pricing(cart_items, discount_rate),
     status |-> "pending",
     created_at |-> now,
     updated_at |-> now,
     status_history |-> <<HistoryEntry("created", ""), HistoryEntry("pending", "")>>,
     hesabfa_invoice_id |-> 0,
     hesabfa_invoice_number |-> 0]

\* order_data as create_order builds it.  customer and payment_method are
\* stored next to user_id in the same way and are read by no operation
\* modelled here.
NewOrder(id, user_id, cart_items, discount_rate, now) ==
    [kind |-> "order",
     order_id |-> id,
     user_id |-> user_id,
     cart_items |-> cart_items,
     pricing |-> Pricing(cart_items, discount_rate),
     status |-> "pending",
     created_at |-> now,
     updated_at |-> now,
     status_history |-> <<HistoryEntry("pending", "")>>,
     hesabfa_invoice_id |-> 0,
     hesabfa_invoice_number |-> 0]

\* Mutant of LoadOrder: a missing order is made up.
LoadOrderOrNew(store, id) ==
    IF id \in DOMAIN store /\ IsOrder(store[id]) THEN store[id]
    ELSE NewOrder(id, 1, <<>>, NoDiscount, 0)

\* _load_order: the parsed record, or None (here NoFile) when the file is
\* missing or cannot be parsed.
LoadOrder(store, id) ==
    IF id \in DOMAIN store /\ IsOrder(store[id]) THEN store[id] ELSE NoFile

\* _save_order on the store; sv is what the file system does.
SaveOrder(store, id, rec, sv) ==
    CASE sv = "ok" -> [store EXCEPT ![id] = rec]
      [] sv = "open_failed" -> store
      [] sv = "write_failed" -> [store EXCEPT ![id] = CorruptFile]

\* ----------------------------------------------------------------- calls
\* order, target: the order_id and new_status arguments; old_status and
\* local: the locals old_status and order_data; phase: where
\* _notify_customer stands; attempt: its loop variable; received: what the
\* customer got of the call's notification ("none": nothing was sent,
\* "failed": every send raised).
NewCall(kind, order, target) ==
    [kind |-> kind, order |-> order, target |-> target,
     pc |-> "save", old_status |-> "none", local |-> NoFile,
     result |-> "none", triggered |-> FALSE,
     phase |-> "none", attempt |-> 0,
     detailedSends |-> 0, plainSends |-> 0, received |-> "none"]

CallIds == 1..Len(calls)

\* The order directory outlives the process (os.makedirs(exist_ok=True)):
\* the server starts on an empty directory, or on one that holds the orders
\* an earlier run created.
\* _load_payment_schedules when there is no file: {}.
NoSchedules == <<>>

\* No get_pending_reminders call has returned yet.
NoScan == [today |-> -1, reminders |-> {}]

\* user_sessions is empty when the process starts: nobody is authenticated,
\* and a session holds no payment_info, receipt_photo or pending_order.
NoSession ==
    [authenticated |-> FALSE, payment_info |-> "none",
     receipt_photo |-> FALSE, pending_order |-> FALSE]

\* No callback has been handled yet.
NotHandled ==
    [handler |-> "none", user |-> 0, pc |-> "done", call |-> 0,
     reply |-> "none"]

InitOrders ==
    \E n \in {0, 1} :
        /\ counter = n
        /\ orders = [id \in OrderIds |->
                        IF id \in 1..n
                        THEN NewOrder(id, 1, <<CartItem("p1", 100, 1)>>,
                                      DeferredRate, 0)
                        ELSE NoFile]

Init ==
    /\ InitOrders
    /\ clock = 0
    /\ bot = FALSE
    /\ calls = <<>>
    /\ running = 0
    /\ tasks = <<>>
    /\ invoiceSeq = 0
    /\ carts = [u \in Users |-> <<>>]
    /\ schedules = NoSchedules
    /\ returned = "none"
    /\ inflight = <<>>
    /\ scanned = NoScan
    /\ user_sessions = [u \in Users |-> NoSession]
    /\ handled = NotHandled

\* datetime.now(): a reading is never before the last one.  Only the order
\* of the readings matters, so time moves by at most one unit per reading.
Now == {clock, clock + 1}

\* set_bot, called once from BotHandlers.setup_handlers.
SetBot ==
    /\ ~bot
    /\ running = 0
    /\ bot' = TRUE
    /\ UNCHANGED <<orders, counter, clock, calls, running, tasks, invoiceSeq, outside>>

\* ------------------------------------------------------------ create_order
\* _generate_order_id: the id and the counter file afterwards.  With a
\* working counter file the next counter value is written back and is the
\* id; after an exception the id is derived from the time of day.
GenerateOrderId(cnt, outcome, now) ==
    IF outcome = "ok"
    THEN [order_id |-> cnt + 1, counter |-> cnt + 1]
    ELSE [order_id |-> FallbackId(now), counter |-> cnt]

\* A call returns: its locals are gone, what it returned and what the
\* customer received of it stay on record.
Return(call, result) ==
    [call EXCEPT !.pc = "done", !.result = result, !.local = NoFile,
                 !.phase = "none", !.attempt = 0,
                 !.detailedSends = 0, !.plainSends = 0]

\* The first bot.send_message of _notify_customer is awaited: the detailed
\* message, attempt 0 of the retry loop.
EnterNotify(call) ==
    [call EXCEPT !.pc = "send", !.phase = "detailed", !.attempt = 0,
                 !.detailedSends = @ + 1, !.local = NoFile]

\* create_order up to its first suspension.  The id is allocated, the order
\* is built and saved; a failed save re-raises.  With no bot set both
\* notifications return at once and the id is returned; otherwise the call
\* waits in _send_invoice_to_support_group.
CreateOrderCall(user_id, cart_items, discount_rate, now, cnt, sv) ==
    /\ running = 0
    /\ Len(calls) < MaxCalls
    /\ clock' = now
    /\ LET generated == GenerateOrderId(counter, cnt, now)
           id == generated.order_id
           call == NewCall("create", id, "pending")
       IN /\ id \in OrderIds
          /\ counter' = generated.counter
          /\ orders' = SaveOrder(orders, id,
                           NewOrder(id, user_id, cart_items, discount_rate, now),
                           sv)
          /\ calls' = Append(calls,
                 IF sv # "ok" THEN Return(call, "raised")
                 ELSE IF ~bot THEN Return(call, "order_id")
                 ELSE [call EXCEPT !.pc = "support"])

\* A create_order call made where nothing of the caller is modelled.
CreateOrder(user_id, cart_items, discount_rate, now, cnt, sv) ==
    /\ CreateOrderCall(user_id, cart_items, discount_rate, now, cnt, sv)
    /\ UNCHANGED <<bot, running, tasks, invoiceSeq, outside>>

\* _send_invoice_to_support_group finishes: get_chat, send_photo and
\* send_message succeed or fail, every failure is logged and swallowed, and
\* create_order goes on into _notify_customer(PENDING).
SupportGroupSend(c) ==
    /\ running = 0
    /\ c \in CallIds
    /\ calls[c].pc = "support"
    /\ calls' = [calls EXCEPT ![c] = EnterNotify(@)]
    /\ UNCHANGED <<orders, counter, clock, bot, running, tasks, invoiceSeq, outside>>

\* ----------------------------------------------------- update_order_status
\* Mutants of ModifyOrder: the creation time is reset; the history entry is
\* not appended; the entry carries the status the order had.
ModifyOrderResetsCreated(rec, new_status, admin, now) ==
    [rec EXCEPT !.status = new_status,
                !.created_at = now,
                !.updated_at = now,
                !.status_history = Append(@, HistoryEntry(new_status, admin))]

ModifyOrderNoAppend(rec, new_status, admin, now) ==
    [rec EXCEPT !.status = new_status, !.updated_at = now]

ModifyOrderStaleEntry(rec, new_status, admin, now) ==
    [rec EXCEPT !.status = new_status,
                !.updated_at = now,
                !.status_history = Append(@, HistoryEntry(rec.status, admin))]

\* Lines 301-313: the new status, updated_at and the appended history entry.
ModifyOrder(rec, new_status, admin, now) ==
    [rec EXCEPT !.status = new_status,
                !.updated_at = now,
                !.status_history = Append(@, HistoryEntry(new_status, admin))]

\* Mutant of ShouldTriggerBridge: the status is not looked at.
ShouldTriggerBridgeAnyStatus(new_status, order_data) ==
    order_data.hesabfa_invoice_id = 0

\* Line 320: the condition under which the invoicing task is created.
ShouldTriggerBridge(new_status, order_data) ==
    new_status = "confirmed" /\ order_data.hesabfa_invoice_id = 0

\* Mutant of PcAfterModify: the side effects come before the save.
PcAfterModifySkipsSave == "bridge"

\* The order of lines 301-325: the modified copy is saved (line 316) before
\* the invoicing task is created (line 325).
PcAfterModify == "save"
PcAfterSave == "bridge"

\* Lines 292-313: the call starts, loads the order and modifies its copy.
\* An order that cannot be loaded ends the call with False.
UpdateLoad(id, new_status, now) ==
    /\ running = 0
    /\ Len(calls) < MaxCalls
    /\ LET c == Len(calls) + 1
           order_data == LoadOrder(orders, id)
           call == NewCall("update", id, new_status)
       IN IF ~IsOrder(order_data)
          THEN /\ calls' = Append(calls, Return(call, "false"))
               /\ running' = 0
               /\ clock' = clock
          ELSE /\ calls' = Append(calls,
                     [call EXCEPT !.pc = PcAfterModify,
                                  !.old_status = order_data.status,
                                  !.local =
                         ModifyOrder(order_data, new_status, AdminName(c), now)])
               /\ running' = c
               /\ clock' = now
    /\ UNCHANGED <<orders, counter, bot, tasks, invoiceSeq, outside>>

\* Line 316: _save_order; an exception is caught at line 342 and the call
\* returns False.
UpdateSave(sv) ==
    /\ running # 0
    /\ calls[running].pc = "save"
    /\ LET call == calls[running]
       IN /\ orders' = SaveOrder(orders, call.order, call.local, sv)
          /\ IF sv = "ok"
             THEN /\ calls' = [calls EXCEPT ![running].pc = PcAfterSave]
                  /\ running' = running
             ELSE /\ calls' = [calls EXCEPT ![running] = Return(call, "false")]
                  /\ running' = 0
    /\ UNCHANGED <<counter, clock, bot, tasks, invoiceSeq, outside>>

\* Lines 320-325: asyncio.create_task(_process_hesabfa_invoice(...)).
UpdateBridge ==
    /\ running # 0
    /\ calls[running].pc = "bridge"
    /\ LET call == calls[running]
       IN IF ShouldTriggerBridge(call.target, call.local)
          THEN /\ tasks' = Append(tasks, [order |-> call.order,
                                          order_data |-> call.local])
               /\ calls' = [calls EXCEPT ![running].pc = "notify",
                                         ![running].triggered = TRUE]
          ELSE /\ tasks' = tasks
               /\ calls' = [calls EXCEPT ![running].pc = "notify"]
    /\ UNCHANGED <<orders, counter, clock, bot, running, invoiceSeq, outside>>

\* Mutant of UpdateResult: a notification that reached nobody fails the call.
UpdateResultNeedsDelivery(received) ==
    IF received = "failed" THEN "false" ELSE "true"

\* What update_order_status returns once _notify_customer is through.
UpdateResult(received) == "true"

\* Lines 328-340: with a bot the call enters _notify_customer and waits for
\* its first send; without one it returns True at once.
UpdateNotify ==
    /\ running # 0
    /\ calls[running].pc = "notify"
    /\ calls' = [calls EXCEPT ![running] =
           IF bot THEN EnterNotify(@) ELSE Return(@, UpdateResult("none"))]
    /\ running' = 0
    /\ UNCHANGED <<orders, counter, clock, bot, tasks, invoiceSeq, outside>>

\* -------------------------------------------------------- _notify_customer
\* The text of the message a phase sends: full_message in the retry loop,
\* the plain "order ... updated" line in both fallbacks.
MessageText(phase) == IF phase = "detailed" THEN "detailed" ELSE "generic"

\* Mutant of AfterSendFailure: a failing emergency message is not caught.
AfterSendFailureUncaught(phase, attempt) ==
    CASE phase = "detailed" /\ attempt < MaxRetries - 1 ->
             [next |-> "detailed", attempt |-> attempt + 1]
      [] phase = "detailed" /\ attempt >= MaxRetries - 1 ->
             [next |-> "simple", attempt |-> attempt]
      [] phase = "simple" -> [next |-> "emergency", attempt |-> attempt]
      [] OTHER -> [next |-> "raise", attempt |-> attempt]

\* Mutant of AfterSendFailure: the loop bound is off by one.
AfterSendFailureOneMore(phase, attempt) ==
    CASE phase = "detailed" /\ attempt < MaxRetries ->
             [next |-> "detailed", attempt |-> attempt + 1]
      [] phase = "detailed" /\ attempt >= MaxRetries ->
             [next |-> "simple", attempt |-> attempt]
      [] phase = "simple" -> [next |-> "emergency", attempt |-> attempt]
      [] OTHER -> [next |-> "return", attempt |-> attempt]

\* Lines 482-515 after a send has raised: the next send, or the end of the
\* function.  The loop retries the detailed message; its last attempt falls
\* back to the simple message inside the handler; if that raises too the
\* outer handler sends the emergency message, whose failure is swallowed.
AfterSendFailure(phase, attempt) ==
    CASE phase = "detailed" /\ attempt < MaxRetries - 1 ->
             [next |-> "detailed", attempt |-> attempt + 1]
      [] phase = "detailed" /\ attempt >= MaxRetries - 1 ->
             [next |-> "simple", attempt |-> attempt]
      [] phase = "simple" -> [next |-> "emergency", attempt |-> attempt]
      [] OTHER -> [next |-> "return", attempt |-> attempt]

\* The call as _notify_customer leaves it to its caller: update_order_status
\* returns True (also from its handler at lines 333-337, which restarts the
\* notification as a background task), create_order returns the order id or
\* re-raises.  _notify_customer_async swallows whatever the restarted
\* notification raises.
LeaveNotify(call, how) ==
    IF call.result # "none" THEN Return(call, call.result)
    ELSE IF call.kind = "update"
    THEN IF how = "raise"
         THEN [EnterNotify(call) EXCEPT !.result = UpdateResult(call.received)]
         ELSE Return(call, UpdateResult(call.received))
    ELSE Return(call, IF how = "raise" THEN "raised" ELSE "order_id")

\* One awaited bot.send_message of call c completes: ok, or it raises.
SendResult(c, ok) ==
    /\ running = 0
    /\ c \in CallIds
    /\ calls[c].pc = "send"
    /\ LET call == calls[c]
           step == AfterSendFailure(call.phase, call.attempt)
       IN calls' = [calls EXCEPT ![c] =
              IF ok
              THEN LeaveNotify([call EXCEPT !.received = MessageText(call.phase)],
                               "return")
              ELSE IF step.next \in {"return", "raise"}
              THEN LeaveNotify([call EXCEPT !.received = "failed"], step.next)
              ELSE [call EXCEPT
                       !.phase = step.next,
                       !.attempt = step.attempt,
                       !.detailedSends =
                           IF step.next = "detailed" THEN @ + 1 ELSE @,
                       !.plainSends =
                           IF step.next = "detailed" THEN @ ELSE @ + 1]]
    /\ UNCHANGED <<orders, counter, clock, bot, running, tasks, invoiceSeq, outside>>

\* ------------------------------------------------ _process_hesabfa_invoice
\* Lines 381-391: the invoice fields and the "hesabfa_created" entry.
HesabfaCreated(current_order, invoice) ==
    [current_order EXCEPT
        !.hesabfa_invoice_id = invoice,
        !.hesabfa_invoice_number = invoice,
        !.status_history = Append(@, HistoryEntry("hesabfa_created", "system"))]

\* Mutant of HesabfaError: the failure is logged only.
HesabfaErrorUnrecorded(current_order) == current_order

\* Lines 405-411 and 421-427: the "hesabfa_error" entry.
HesabfaError(current_order) ==
    [current_order EXCEPT
        !.status_history = Append(@, HistoryEntry("hesabfa_error", "system"))]

\* Lines 414-430: the handler reloads the order and records the error; a
\* failure of its own save is logged only.
HesabfaExcept(store, id, sv) ==
    LET current_order == LoadOrder(store, id)
    IN IF IsOrder(current_order)
       THEN SaveOrder(store, id, HesabfaError(current_order), sv)
       ELSE store

\* Mutant of ReloadOrder: the write-back works on the copy the task was
\* created with.
ReloadOrderStale(store, id, order_data) == order_data

\* Line 374: current_order, the order as it is stored now, not the
\* order_data the task was created with.
ReloadOrder(store, id, order_data) == LoadOrder(store, id)

\* The variant that writes back the order_data the task was created with.
WriteBackOfSnapshot(store, id, order_data, outcome, invoice, sv1, sv2) ==
    SaveOrder(store, id,
              IF outcome = "success" THEN HesabfaCreated(order_data, invoice)
              ELSE HesabfaError(order_data),
              sv1)

\* Lines 373-430 on the store: the order is reloaded and the outcome is
\* written back; a save that raises inside the try block sends control to
\* the handler.
WriteBack(store, id, order_data, outcome, invoice, sv1, sv2) ==
    LET current_order == ReloadOrder(store, id, order_data)
        written == IF outcome = "success"
                   THEN HesabfaCreated(current_order, invoice)
                   ELSE HesabfaError(current_order)
        saved == SaveOrder(store, id, written, sv1)
    IN IF outcome = "raises" THEN HesabfaExcept(store, id, sv2)
       ELSE IF ~IsOrder(current_order) THEN store
       ELSE IF sv1 = "ok" THEN saved
       ELSE HesabfaExcept(saved, id, sv2)

\* The oldest invoicing task runs, from start to end without suspending.
\* A successful create_invoice makes the external system issue an invoice.
ProcessHesabfaInvoice(outcome, sv1, sv2) ==
    /\ running = 0
    /\ tasks # <<>>
    /\ LET id == Head(tasks).order
           invoice == invoiceSeq + 1
       IN /\ invoiceSeq' = IF outcome = "success" THEN invoice ELSE invoiceSeq
          /\ orders' = WriteBack(orders, id, Head(tasks).order_data,
                                 outcome, invoice, sv1, sv2)
    /\ tasks' = Tail(tasks)
    /\ UNCHANGED <<counter, clock, bot, calls, running, outside>>

\* ------------------------------------------------------ get_customer_orders
\* str(n): the decimal digits of a natural number, one character each.
RECURSIVE Str(_)
Str(n) == IF n < 10 THEN <<ToString(n)>>
          ELSE Append(Str(n \div 10), ToString(n % 10))

\* Zero padding to a width, as {:05d} and %H%M%S do.
RECURSIVE ZeroPadded(_, _)
ZeroPadded(chars, width) ==
    IF Len(chars) >= width THEN chars ELSE ZeroPadded(<<"0">> \o chars, width)

\* The characters of an order id: "00001" for the counter id 1, "ORD" and
\* the six digits of the time of day for a fallback id, "ORDER_1_0" for an
\* id a checkout handler made up.
OrderIdText(id) ==
    IF id >= HandlerIdBase
    THEN <<"O", "R", "D", "E", "R", "_">> \o Str(id \div HandlerIdBase)
             \o <<"_">> \o Str(id % HandlerIdBase)
    ELSE IF id > 0 THEN ZeroPadded(Str(id), 5)
    ELSE <<"O", "R", "D">> \o ZeroPadded(Str(-id - 1), 6)

\* str.startswith.
StartsWith(chars, prefix) ==
    /\ Len(prefix) <= Len(chars)
    /\ \A i \in 1..Len(prefix) : chars[i] = prefix[i]

\* Line 554: the file order_<order id>.json passes the filter when its name
\* starts with order_<user_id>_ , that is when the order id starts with the
\* user id and an underscore.  order_counter.txt does not end in .json.
ListedFor(id, user_id) == StartsWith(OrderIdText(id), Str(user_id) \o <<"_">>)

\* get_customer_orders: the records of the files that pass the filter and
\* can be loaded (their order by created_at is left out).
GetCustomerOrders(store, user_id) ==
    {store[id] : id \in {i \in DOMAIN store :
                            ListedFor(i, user_id) /\ IsOrder(LoadOrder(store, i))}}

\* ---------------------------------------------------------- specification
\* The steps of the server when _save_order behaves as Storage allows.
NextOver(Storage) ==
    \/ SetBot
    \/ \E cart_items \in {<<>>, <<CartItem("p1", 100, 1)>>}, now \in Now,
          sv \in Storage :
           CreateOrder(1, cart_items, CashRate, now, "ok", sv)
    \/ \E c \in CallIds : SupportGroupSend(c)
    \/ \E id \in OrderIds, s \in OrderStatus, now \in Now :
           UpdateLoad(id, s, now)
    \/ \E sv \in Storage : UpdateSave(sv)
    \/ UpdateBridge
    \/ UpdateNotify
    \/ \E c \in CallIds, ok \in BOOLEAN : SendResult(c, ok)
    \/ \E o \in BridgeOutcome, sv1, sv2 \in Storage :
           ProcessHesabfaInvoice(o, sv1, sv2)

\* The order store on a working file system.
Next == NextOver({"ok"})

Spec == Init /\ [][Next]_vars

\* ------------------------------------------------------------------ carts
\* The products of the catalogue (each a product_id with its size).
Products == {"p1", "p2"}

\* add_to_cart on the list get_cart returned: the first item with the same
\* product gets the quantity added, otherwise the item is appended.
AddItem(cart_items, item) ==
    LET same == {i \in 1..Len(cart_items) :
                    cart_items[i].product_id = item.product_id}
    IN IF same = {} THEN Append(cart_items, item)
       ELSE LET first == CHOOSE i \in same : \A k \in same : i <= k
            IN [cart_items EXCEPT ![first].quantity = @ + item.quantity]

\* remove_from_cart on the list: every item of the product is dropped.
RemoveItem(cart_items, product_id) ==
    SelectSeq(cart_items, LAMBDA it : it.product_id # product_id)

\* add_to_cart followed by its save_cart.
AddToCart(user_id, item) ==
    /\ running = 0
    /\ \A i \in 1..Len(carts[user_id]) :
           carts[user_id][i].product_id = item.product_id
           => carts[user_id][i].quantity + item.quantity <= MaxQuantity
    /\ carts' = [carts EXCEPT ![user_id] = AddItem(@, item)]
    /\ UNCHANGED <<orders, counter, clock, bot, calls, running, tasks,
                   invoiceSeq, scheduler, chat>>

\* remove_from_cart followed by its save_cart.
RemoveFromCart(user_id, product_id) ==
    /\ running = 0
    /\ carts' = [carts EXCEPT ![user_id] = RemoveItem(@, product_id)]
    /\ UNCHANGED <<orders, counter, clock, bot, calls, running, tasks,
                   invoiceSeq, scheduler, chat>>

\* clear_cart: save_cart(user_id, []).
ClearCart(user_id) ==
    /\ running = 0
    /\ carts' = [carts EXCEPT ![user_id] = <<>>]
    /\ UNCHANGED <<orders, counter, clock, bot, calls, running, tasks,
                   invoiceSeq, scheduler, chat>>

\* A user fills and empties the cart and checks out (the handlers pass
\* cart_manager.get_cart(user_id) to create_order), staff confirm or cancel
\* the orders, and the invoicing tasks run.  No bot is set.
NextCart ==
    \/ \E p \in Products : AddToCart(1, CartItem(p, 100, 1))
    \/ \E p \in Products : RemoveFromCart(1, p)
    \/ ClearCart(1)
    \/ \E now \in Now : CreateOrder(1, carts[1], CashRate, now, "ok", "ok")
    \/ \E id \in CounterIds, s \in {"confirmed", "cancelled"}, now \in Now :
           UpdateLoad(id, s, now)
    \/ UpdateSave("ok")
    \/ UpdateBridge
    \/ UpdateNotify
    \/ \E o \in BridgeOutcome : ProcessHesabfaInvoice(o, "ok", "ok")

SpecCart == Init /\ [][NextCart]_vars

\* ------------------------------------------------------- payment schedules
\* schedule_id = f"{user_id}_{order_id}_{int(today.timestamp())}".  One
\* unit of the clock is the resolution of the timestamp and of the dates.
ScheduleId(user_id, order_id, now) == <<user_id, order_id, now>>

\* The schedule ids a caller may name: those add_* can make, stored or not.
ScheduleIds == {1} \X CounterIds \X (0..MaxSchedules)

\* The remaining_amount the caller passes for an order: the amount of the
\* spec's example for the first order, one that 3 does not divide for the
\* others.
RemainingAmount(order_id) == IF order_id = 1 THEN 900000 ELSE 100

\* remaining_amount / 3 in floating point: the quotient itself when 3
\* divides the amount, otherwise the double next to the fraction, kept as
\* the whole part and the thirds left over.
DividedBy3(amount) == [whole |-> amount \div 3, thirds |-> amount % 3]

\* The record add_60day_payment_schedule stores.
NewSchedule60(user_id, order_id, now) ==
    [user_id |-> user_id,
     order_id |-> order_id,
     remaining_amount |-> RemainingAmount(order_id),
     payment_date |-> now + 60,
     payment_type |-> "60day",
     payments_made |-> <<>>,
     created_date |-> now,
     status |-> "active"]

\* The variant whose installments are a fortnight apart.
NewSchedule90Fortnightly(user_id, order_id, now) ==
    [user_id |-> user_id,
     order_id |-> order_id,
     remaining_amount |-> RemainingAmount(order_id),
     monthly_amount |-> DividedBy3(RemainingAmount(order_id)),
     payment_dates |-> <<now + 15, now + 30, now + 45>>,
     payments_made |-> <<>>,
     created_date |-> now,
     status |-> "active"]

\* The record add_90day_payment_schedule stores; it has no payment_type
\* key, and every reader takes '90day' as the default.
NewSchedule90(user_id, order_id, now) ==
    [user_id |-> user_id,
     order_id |-> order_id,
     remaining_amount |-> RemainingAmount(order_id),
     monthly_amount |-> DividedBy3(RemainingAmount(order_id)),
     payment_dates |-> <<now + 30, now + 60, now + 90>>,
     payments_made |-> <<>>,
     created_date |-> now,
     status |-> "active"]

\* schedule.get('payment_type', '90day')
PaymentType(schedule) ==
    IF "payment_type" \in DOMAIN schedule THEN schedule.payment_type ELSE "90day"

\* Outcomes of _save_payment_schedules: written, open() failed and the
\* file is as it was, or json.dump failed on the truncated file, which
\* _load_payment_schedules then reads as no schedules at all.
SaveSchedules(store, new, sv) ==
    CASE sv = "ok" -> new
      [] sv = "open_failed" -> store
      [] sv = "write_failed" -> NoSchedules

\* schedules[schedule_id] = payment_schedule
PutSchedule(store, schedule_id, schedule) ==
    [k \in DOMAIN store \cup {schedule_id} |->
        IF k = schedule_id THEN schedule ELSE store[k]]

IsMember(x, seq) == \E i \in 1..Len(seq) : seq[i] = x

\* The variant without the 60-day branch: every schedule counts to three.
MarkedScheduleNoType(schedule, payment_number) ==
    LET made == IF IsMember(payment_number - 1, schedule.payments_made)
                THEN schedule.payments_made
                ELSE SortSeq(Append(schedule.payments_made, payment_number - 1),
                             LAMBDA a, b : a < b)
    IN [schedule EXCEPT
           !.payments_made = made,
           !.status = IF Len(made) >= 3 THEN "completed" ELSE @]

\* The variant that records payment_number itself, not the index.
MarkedScheduleOffByOne(schedule, payment_number) ==
    IF PaymentType(schedule) = "60day"
    THEN [schedule EXCEPT !.payments_made = <<0>>, !.status = "completed"]
    ELSE LET made == IF IsMember(payment_number, schedule.payments_made)
                     THEN schedule.payments_made
                     ELSE SortSeq(Append(schedule.payments_made, payment_number),
                                  LAMBDA a, b : a < b)
         IN [schedule EXCEPT
                !.payments_made = made,
                !.status = IF Len(made) >= 3 THEN "completed" ELSE @]

\* Lines 172-187 of mark_payment_made on one schedule.
MarkedSchedule(schedule, payment_number) ==
    IF PaymentType(schedule) = "60day"
    THEN [schedule EXCEPT !.payments_made = <<0>>, !.status = "completed"]
    ELSE LET made == IF IsMember(payment_number - 1, schedule.payments_made)
                     THEN schedule.payments_made
                     ELSE SortSeq(Append(schedule.payments_made, payment_number - 1),
                                  LAMBDA a, b : a < b)
         IN [schedule EXCEPT
                !.payments_made = made,
                !.status = IF Len(made) >= 3 THEN "completed" ELSE @]

\* What a call returns after _save_payment_schedules (lines 73-76, 113-116,
\* 189-192 and 264-267).
SaveReturns(sv) == IF sv = "ok" THEN "true" ELSE "false"

\* add_60day_payment_schedule
Add60DayPaymentSchedule(user_id, order_id, now, sv) ==
    /\ running = 0
    /\ Cardinality(DOMAIN schedules) < MaxSchedules
    /\ clock' = now
    /\ schedules' = SaveSchedules(schedules,
           PutSchedule(schedules, ScheduleId(user_id, order_id, now),
                       NewSchedule60(user_id, order_id, now)), sv)
    /\ returned' = SaveReturns(sv)
    /\ UNCHANGED <<orders, counter, bot, calls, running, tasks, invoiceSeq,
                   chat, carts, inflight, scanned>>

\* add_90day_payment_schedule
Add90DayPaymentSchedule(user_id, order_id, now, sv) ==
    /\ running = 0
    /\ Cardinality(DOMAIN schedules) < MaxSchedules
    /\ clock' = now
    /\ schedules' = SaveSchedules(schedules,
           PutSchedule(schedules, ScheduleId(user_id, order_id, now),
                       NewSchedule90(user_id, order_id, now)), sv)
    /\ returned' = SaveReturns(sv)
    /\ UNCHANGED <<orders, counter, bot, calls, running, tasks, invoiceSeq,
                   chat, carts, inflight, scanned>>

\* The schedules mark_payment_made passes to _save_payment_schedules.
MarkedStore(store, schedule_id, payment_number) ==
    PutSchedule(store, schedule_id,
                MarkedSchedule(store[schedule_id], payment_number))

\* The schedules cancel_payment_schedule passes to _save_payment_schedules.
CancelledStore(store, schedule_id) ==
    PutSchedule(store, schedule_id,
                [store[schedule_id] EXCEPT !.status = "cancelled"])

\* The variant that logs an unknown schedule_id and goes on to the save.
MarkOutcomeSavesUnknown(store, schedule_id, payment_number, sv) ==
    [schedules |-> SaveSchedules(store,
                       IF schedule_id \in DOMAIN store
                       THEN MarkedStore(store, schedule_id, payment_number)
                       ELSE store, sv),
     returned |-> SaveReturns(sv)]

\* mark_payment_made from its load to its return: an unknown schedule_id
\* returns False before anything is changed or written.
MarkOutcome(store, schedule_id, payment_number, sv) ==
    IF schedule_id \notin DOMAIN store
    THEN [schedules |-> store, returned |-> "false"]
    ELSE [schedules |-> SaveSchedules(store,
                            MarkedStore(store, schedule_id, payment_number), sv),
          returned |-> SaveReturns(sv)]

\* cancel_payment_schedule from its load to its return.
CancelOutcome(store, schedule_id, sv) ==
    IF schedule_id \notin DOMAIN store
    THEN [schedules |-> store, returned |-> "false"]
    ELSE [schedules |-> SaveSchedules(store,
                            CancelledStore(store, schedule_id), sv),
          returned |-> SaveReturns(sv)]

\* mark_payment_made, with nothing reading the file while it is written.
MarkPaymentMade(schedule_id, payment_number, sv) ==
    LET outcome == MarkOutcome(schedules, schedule_id, payment_number, sv) IN
    /\ running = 0
    /\ schedules' = outcome.schedules
    /\ returned' = outcome.returned
    /\ UNCHANGED <<orders, counter, clock, bot, calls, running, tasks,
                   invoiceSeq, chat, carts, inflight, scanned>>

\* cancel_payment_schedule, with nothing reading the file while it is
\* written.
CancelPaymentSchedule(schedule_id, sv) ==
    LET outcome == CancelOutcome(schedules, schedule_id, sv) IN
    /\ running = 0
    /\ schedules' = outcome.schedules
    /\ returned' = outcome.returned
    /\ UNCHANGED <<orders, counter, clock, bot, calls, running, tasks,
                   invoiceSeq, chat, carts, inflight, scanned>>

\* The schedule store on a working file system.
NextSched ==
    \/ \E order_id \in CounterIds, now \in Now :
           Add60DayPaymentSchedule(1, order_id, now, "ok")
    \/ \E order_id \in CounterIds, now \in Now :
           Add90DayPaymentSchedule(1, order_id, now, "ok")
    \/ \E schedule_id \in ScheduleIds, payment_number \in 0..MaxPaymentNumber :
           MarkPaymentMade(schedule_id, payment_number, "ok")
    \/ \E schedule_id \in ScheduleIds : CancelPaymentSchedule(schedule_id, "ok")

SpecSched == Init /\ [][NextSched]_vars

\* ------------------------------------------- reminders and the two threads
\* main() starts ReminderScheduler's daemon thread before the bot polls.
\* The thread runs send_daily_reminders, which reads the schedule file
\* through a PaymentScheduler of its own, while the handlers on the loop
\* thread call the add, mark and cancel methods.  These are plain "def"
\* methods without an await: the loop thread runs one to its return before
\* it starts another, but the scheduler thread reads at any moment, also
\* between the open() that truncates the file and the end of json.dump.

\* The variant that also reminds of a payment_date that has passed.
Reminders60Overdue(schedule_id, schedule, today) ==
    IF schedule.payment_date <= today /\ schedule.payments_made = <<>>
    THEN {[schedule_id |-> schedule_id,
           user_id |-> schedule.user_id,
           payment_number |-> 1,
           payment_type |-> "60day",
           payment_date |-> schedule.payment_date]}
    ELSE {}

\* The 60-day branch of get_pending_reminders (lines 130-142).
Reminders60(schedule_id, schedule, today) ==
    IF schedule.payment_date = today /\ schedule.payments_made = <<>>
    THEN {[schedule_id |-> schedule_id,
           user_id |-> schedule.user_id,
           payment_number |-> 1,
           payment_type |-> "60day",
           payment_date |-> schedule.payment_date]}
    ELSE {}

\* The variant without the "i not in payments_made" test.
Reminders90PaidToo(schedule_id, schedule, today) ==
    {[schedule_id |-> schedule_id,
      user_id |-> schedule.user_id,
      payment_number |-> i,
      remaining_payments |-> 3 - Len(schedule.payments_made),
      payment_type |-> "90day",
      payment_date |-> schedule.payment_dates[i]] :
        i \in {j \in 1..Len(schedule.payment_dates) :
                   schedule.payment_dates[j] = today}}

\* The 90-day branch (lines 143-160): enumerate(payment_dates) counts from
\* 0, the sequence from 1.
Reminders90(schedule_id, schedule, today) ==
    {[schedule_id |-> schedule_id,
      user_id |-> schedule.user_id,
      payment_number |-> i,
      remaining_payments |-> 3 - Len(schedule.payments_made),
      payment_type |-> "90day",
      payment_date |-> schedule.payment_dates[i]] :
        i \in {j \in 1..Len(schedule.payment_dates) :
                   /\ schedule.payment_dates[j] = today
                   /\ ~IsMember(j - 1, schedule.payments_made)}}

\* The reminders of one schedule: none unless its status is active.
RemindersOf(schedule_id, schedule, today) ==
    IF schedule.status # "active" THEN {}
    ELSE IF PaymentType(schedule) = "60day"
         THEN Reminders60(schedule_id, schedule, today)
         ELSE Reminders90(schedule_id, schedule, today)

\* get_pending_reminders on the schedules it loaded.  The list is kept as
\* a set: its entries differ in schedule_id or payment_number, and their
\* order is the order of the keys in the file.
GetPendingReminders(store, today) ==
    UNION {RemindersOf(k, store[k], today) : k \in DOMAIN store}

\* The variant that notes the reminders it returns in the file, so as not
\* to send them twice.
StoreAfterScanNotesReminded(store, today) ==
    [k \in DOMAIN store |->
        IF RemindersOf(k, store[k], today) = {} THEN store[k]
        ELSE [store[k] EXCEPT !.status = "reminded"]]

\* The file after get_pending_reminders: the method never saves.
StoreAfterScan(store, today) == store

\* send_daily_reminders on the scheduler thread: one read of the file as it
\* is at that moment, then the list of the day the clock shows.
SendDailyReminders ==
    /\ scanned' = [today |-> clock,
                   reminders |-> GetPendingReminders(schedules, clock)]
    /\ schedules' = StoreAfterScan(schedules, clock)
    /\ UNCHANGED <<orders, counter, clock, bot, calls, running, tasks,
                   invoiceSeq, chat, carts, returned, inflight>>

\* A month goes by with no reading of the clock, and with no method in
\* the middle of its write.
TimePasses ==
    /\ inflight = <<>>
    /\ clock + DaysToInstallment <= MaxDay
    /\ clock' = clock + DaysToInstallment
    /\ UNCHANGED <<orders, counter, bot, calls, running, tasks, invoiceSeq,
                   chat, carts, scheduler>>

\* The variant in which a method gives up the loop between its load and
\* its save, as a coroutine with an await there would.
MayEnterAnyTime(entered) == TRUE

\* The loop thread may start a PaymentScheduler method when the one before
\* has returned.
MayEnter(entered) == entered = <<>>

\* A method has loaded the file and changed its copy; _save_payment_schedules
\* comes next.
Enter(op, schedule_id, payment_number, new) ==
    inflight' = Append(inflight,
                       [op |-> op,
                        schedule_id |-> schedule_id,
                        payment_number |-> payment_number,
                        loaded |-> schedules,
                        new |-> new,
                        pc |-> "open"])

\* add_60day_payment_schedule up to the save.
BeginAdd60(user_id, order_id, now) ==
    /\ running = 0
    /\ MayEnter(inflight)
    /\ Len(inflight) < MaxInFlight
    /\ Cardinality(DOMAIN schedules) < MaxSchedules
    /\ clock' = now
    /\ Enter("add_60day", ScheduleId(user_id, order_id, now), 0,
             PutSchedule(schedules, ScheduleId(user_id, order_id, now),
                         NewSchedule60(user_id, order_id, now)))
    /\ UNCHANGED <<orders, counter, bot, calls, running, tasks, invoiceSeq,
                   chat, carts, schedules, returned, scanned>>

\* add_90day_payment_schedule up to the save.
BeginAdd90(user_id, order_id, now) ==
    /\ running = 0
    /\ MayEnter(inflight)
    /\ Len(inflight) < MaxInFlight
    /\ Cardinality(DOMAIN schedules) < MaxSchedules
    /\ clock' = now
    /\ Enter("add_90day", ScheduleId(user_id, order_id, now), 0,
             PutSchedule(schedules, ScheduleId(user_id, order_id, now),
                         NewSchedule90(user_id, order_id, now)))
    /\ UNCHANGED <<orders, counter, bot, calls, running, tasks, invoiceSeq,
                   chat, carts, schedules, returned, scanned>>

\* mark_payment_made up to the save, or to "return False" for an unknown
\* schedule_id.
BeginMark(schedule_id, payment_number) ==
    /\ running = 0
    /\ MayEnter(inflight)
    /\ Len(inflight) < MaxInFlight
    /\ IF schedule_id \notin DOMAIN schedules
       THEN /\ returned' = "false"
            /\ UNCHANGED inflight
       ELSE /\ Enter("mark", schedule_id, payment_number,
                     MarkedStore(schedules, schedule_id, payment_number))
            /\ UNCHANGED returned
    /\ UNCHANGED <<orders, counter, clock, bot, calls, running, tasks,
                   invoiceSeq, chat, carts, schedules, scanned>>

\* cancel_payment_schedule up to the save, or to "return False".
BeginCancel(schedule_id) ==
    /\ running = 0
    /\ MayEnter(inflight)
    /\ Len(inflight) < MaxInFlight
    /\ IF schedule_id \notin DOMAIN schedules
       THEN /\ returned' = "false"
            /\ UNCHANGED inflight
       ELSE /\ Enter("cancel", schedule_id, 0,
                     CancelledStore(schedules, schedule_id))
            /\ UNCHANGED returned
    /\ UNCHANGED <<orders, counter, clock, bot, calls, running, tasks,
                   invoiceSeq, chat, carts, schedules, scanned>>

\* open(self.payment_file, 'w') truncates the file (line 38).
SaveOpen(c) ==
    /\ c \in DOMAIN inflight
    /\ inflight[c].pc = "open"
    /\ schedules' = NoSchedules
    /\ inflight' = [inflight EXCEPT ![c].pc = "dump"]
    /\ UNCHANGED <<orders, counter, clock, bot, calls, running, tasks,
                   invoiceSeq, chat, carts, returned, scanned>>

\* json.dump and the end of the with block put the whole document in the
\* file; the method returns True (lines 39-40).
SaveDump(c) ==
    /\ c \in DOMAIN inflight
    /\ inflight[c].pc = "dump"
    /\ schedules' = inflight[c].new
    /\ returned' = "true"
    /\ inflight' = SubSeq(inflight, 1, c - 1) \o
                   SubSeq(inflight, c + 1, Len(inflight))
    /\ UNCHANGED <<orders, counter, clock, bot, calls, running, tasks,
                   invoiceSeq, chat, carts, scanned>>

\* The schedules of one order, added in the first days; their reminders
\* fall due one and two months later.
AddTimes == {now \in Now : now <= MaxSchedules}
NamedIds == {schedule_id \in ScheduleIds : schedule_id[2] = 1}

\* The schedule store and the daily scan, one after the other: the
\* handlers add schedules and act on the buttons of the reminders, which
\* carry the numbers 1 to 3.
NextReminders ==
    \/ \E now \in AddTimes : Add60DayPaymentSchedule(1, 1, now, "ok")
    \/ \E now \in AddTimes : Add90DayPaymentSchedule(1, 1, now, "ok")
    \/ \E schedule_id \in NamedIds, payment_number \in 1..3 :
           MarkPaymentMade(schedule_id, payment_number, "ok")
    \/ \E schedule_id \in NamedIds : CancelPaymentSchedule(schedule_id, "ok")
    \/ SendDailyReminders
    \/ TimePasses

SpecReminders == Init /\ [][NextReminders]_vars

\* The bot with its reminder thread: the scan may read the file between
\* any two steps of a method of the loop thread.
NextThreads ==
    \/ \E now \in AddTimes : BeginAdd60(1, 1, now)
    \/ \E now \in AddTimes : BeginAdd90(1, 1, now)
    \/ \E schedule_id \in NamedIds, payment_number \in 1..3 :
           BeginMark(schedule_id, payment_number)
    \/ \E schedule_id \in NamedIds : BeginCancel(schedule_id)
    \/ \E c \in DOMAIN inflight : SaveOpen(c)
    \/ \E c \in DOMAIN inflight : SaveDump(c)
    \/ SendDailyReminders
    \/ TimePasses

SpecThreads == Init /\ [][NextThreads]_vars

\* ---------------------------------------------------- pricing of an order
\* discount_rate arguments besides the rates of PricingManager: the floats
\* 0.29, 0.57 and 1.0.
OtherRates ==
    {[percent |-> 29] @@ [digits |-> <<1, 2, 8, 15, 5, 12, 2, 8, 15, 5, 12, 2, 8, 15>>, exp |-> -2],
     [percent |-> 57] @@ [digits |-> <<1, 2, 3, 13, 7, 0, 10, 3, 13, 7, 0, 10, 3, 13>>, exp |-> -1],
     [percent |-> 100] @@ [digits |-> <<1, 0, 0, 0, 0, 0, 0, 0, 0, 0, 0, 0, 0, 0>>, exp |-> 0]}

DiscountRates == {NoDiscount, DeferredRate, CashRate} \cup OtherRates

\* Unit prices: two small ones and the 4,780,000 of the price list.
Prices == {100, 180, 4780000}

\* Non-empty carts of one or two products.
PricedCarts ==
    {<<CartItem("p1", pr, q)>> : pr \in Prices, q \in 1..MaxQuantity}
    \cup {<<CartItem("p1", pr[1], q[1]), CartItem("p2", pr[2], q[2])>> :
              pr \in Prices \X Prices, q \in (1..MaxQuantity) \X (1..MaxQuantity)}

\* One create_order on every priced cart at every rate, with no bot set
\* and a working order directory.
NextPricing ==
    /\ calls = <<>>
    /\ \E cart_items \in PricedCarts, discount_rate \in DiscountRates,
          now \in Now :
           CreateOrder(1, cart_items, discount_rate, now, "ok", "ok")

SpecPricing == Init /\ [][NextPricing]_vars

\* ------------------------------------------------- failures and any input
\* What a caller may pass as new_status: the parameter is a str, and
\* BotHandlers._handle_order_status_update passes on whatever follows the
\* order id in the callback data.  "refunded" stands for the strings that
\* are no OrderStatus value.
NewStatusArgs == {"confirmed", "completed", "refunded"}

\* The server on a file system whose writes may fail, called with a
\* new_status that need not be an OrderStatus value.
NextFaulty ==
    \/ SetBot
    \/ \E cart_items \in {<<>>, <<CartItem("p1", 100, 1)>>}, now \in Now,
          cnt \in CounterOutcome, sv \in SaveOutcome :
           CreateOrder(1, cart_items, CashRate, now, cnt, sv)
    \/ \E c \in CallIds : SupportGroupSend(c)
    \/ \E id \in OrderIds, s \in NewStatusArgs, now \in Now :
           UpdateLoad(id, s, now)
    \/ \E sv \in SaveOutcome : UpdateSave(sv)
    \/ UpdateBridge
    \/ UpdateNotify
    \/ \E c \in CallIds, ok \in BOOLEAN : SendResult(c, ok)
    \/ \E o \in BridgeOutcome, sv1, sv2 \in SaveOutcome :
           ProcessHesabfaInvoice(o, sv1, sv2)

SpecFaulty == Init /\ [][NextFaulty]_vars

\* ================================================================ handlers
\* What button_callback and the message handlers do to the carts, the
\* sessions, the orders and the schedule store.  The Application processes
\* one update at a time: a handler runs only when the one before it has
\* returned, also while that one waits inside create_order.
\* The handlers of the online payment path (payment_completed and
\* verify_payment) are left out: the only function that offers their
\* buttons, _handle_zarinpal_payment, is called from nowhere.

\* The handler has returned; reply is the text it left in the chat.
Reply(handler, user_id, reply) ==
    [handler |-> handler, user |-> user_id, pc |-> "done", call |-> 0,
     reply |-> reply]

\* No handler is running, and no call of the order server owns the loop.
Idle == handled.pc = "done" /\ running = 0

\* A handler that returns after a reply and touches nothing else.
Answers(handler, user_id, reply) ==
    /\ handled' = Reply(handler, user_id, reply)
    /\ UNCHANGED <<orders, counter, clock, bot, calls, running, tasks,
                   invoiceSeq, carts, scheduler, user_sessions>>

\* _handle_customer_code_input with a valid code: the session is replaced
\* by a new one.
Authenticate(user_id) ==
    /\ Idle
    /\ user_sessions' = [user_sessions EXCEPT
           ![user_id] = [NoSession EXCEPT !.authenticated = TRUE]]
    /\ handled' = Reply("_handle_customer_code_input", user_id, "welcome")
    /\ UNCHANGED <<orders, counter, clock, bot, calls, running, tasks,
                   invoiceSeq, carts, scheduler>>

\* Callback data, written as the list data.split("_") returns: the text
\* "payment_60day_card" is <<"payment", "60day", "card">>.
CardPayments ==
    {<<"payment", "cash", "card">>, <<"payment", "60day", "card">>,
     <<"payment", "90day", "card">>}

\* The text of a number, with the zero padding of a counter id.
RECURSIVE PadText(_, _)
PadText(text, width) ==
    IF Len(text) >= width THEN text ELSE PadText("0" \o text, width)

Numeral(n, width) == PadText(ToString(n), width)

\* An order id as the list of its parts between underscores.
OrderIdParts(id) ==
    IF id >= HandlerIdBase
    THEN <<"ORDER", ToString(id \div HandlerIdBase), ToString(id % HandlerIdBase)>>
    ELSE IF id > 0 THEN <<Numeral(id, 5)>>
    ELSE <<"ORD" \o Numeral(-id - 1, 6)>>

\* f"{user_id}_{order_id}_{int(today.timestamp())}" as the list of its parts.
ScheduleIdParts(schedule_id) ==
    <<ToString(schedule_id[1])>> \o OrderIdParts(schedule_id[2])
        \o <<ToString(schedule_id[3])>>

\* The buttons _send_reminder_to_group puts under a reminder.
ReminderButtons ==
    {<<"payment", "confirmed">>, <<"contact", "made">>, <<"remind", "tomorrow">>}

\* callback_data=f"<button>_{schedule_id}_{payment_number}"
ReminderCallbackData(button, schedule_id, payment_number) ==
    button \o ScheduleIdParts(schedule_id) \o <<ToString(payment_number)>>

\* data.startswith(prefix); a prefix ending in an underscore has the empty
\* text as its last part.
StartsWithPrefix(data, prefix) ==
    /\ Len(data) >= Len(prefix)
    /\ \A i \in 1..Len(prefix) : prefix[i] = "" \/ data[i] = prefix[i]

\* Lines 209-243: the elif chain of button_callback, in its order.
PrefixRoutes ==
    <<[prefix |-> <<"category", "">>, handler |-> "_handle_category_selection"],
      [prefix |-> <<"subcategory", "">>, handler |-> "_handle_subcategory_selection"],
      [prefix |-> <<"alpha", "">>, handler |-> "_handle_alphabetical_search"],
      [prefix |-> <<"product", "">>, handler |-> "_handle_product_selection"],
      [prefix |-> <<"size", "selection", "">>, handler |-> "_handle_size_selection_request"],
      [prefix |-> <<"size", "">>, handler |-> "_handle_size_selection"],
      [prefix |-> <<"qty", "">>, handler |-> "_handle_quantity_selection"],
      [prefix |-> <<"payment", "">>, handler |-> "_handle_payment_selection"],
      [prefix |-> <<"order", "status", "">>, handler |-> "_handle_order_status_update"],
      [prefix |-> <<"order", "details", "">>, handler |-> "_handle_order_details"],
      [prefix |-> <<"order", "">>, handler |-> "_handle_order_action"],
      [prefix |-> <<"alphabet", "search", "">>, handler |-> "_handle_alphabet_search"],
      [prefix |-> <<"fabric", "">>, handler |-> "_handle_fabric_selection"],
      [prefix |-> <<"back", "to", "fabric", "selection">>, handler |-> "_handle_back_to_fabric_selection"],
      [prefix |-> <<"payment", "confirmed", "">>, handler |-> "_handle_payment_confirmation_from_group"],
      [prefix |-> <<"contact", "made", "">>, handler |-> "_handle_contact_made_from_group"],
      [prefix |-> <<"remind", "tomorrow", "">>, handler |-> "_handle_remind_tomorrow_from_group"]>>

\* The variant that asks for the longer prefixes first.
RouteLongestPrefix(data) ==
    LET hits == {i \in 1..Len(PrefixRoutes) :
                    StartsWithPrefix(data, PrefixRoutes[i].prefix)}
    IN IF hits = {} THEN "none"
       ELSE PrefixRoutes[CHOOSE i \in hits : \A j \in hits :
                Len(PrefixRoutes[j].prefix) <= Len(PrefixRoutes[i].prefix)].handler

\* The handler the chain picks: the first branch whose prefix matches.
Route(data) ==
    LET hits == {i \in 1..Len(PrefixRoutes) :
                    StartsWithPrefix(data, PrefixRoutes[i].prefix)}
    IN IF hits = {} THEN "none"
       ELSE PrefixRoutes[CHOOSE i \in hits : \A j \in hits : i <= j].handler

\* int(text): the number, or ValueError.
ParseInt(text) ==
    LET hits == {n \in 0..MaxDay : \E width \in 1..6 : text = Numeral(n, width)}
    IN IF hits = {} THEN [ok |-> FALSE, value |-> 0]
       ELSE [ok |-> TRUE, value |-> CHOOSE n \in hits : TRUE]

\* What a handler of this kind leaves: the session of the user, the
\* schedule store and the reply.
Outcome(session, store, result, reply) ==
    [session |-> session, schedules |-> store, returned |-> result,
     reply |-> reply]

\* _handle_payment_selection
PaymentSelection(user_id, data) ==
    LET session == user_sessions[user_id]
        same(reply) == Outcome(session, schedules, returned, reply)
    IN IF ~session.authenticated THEN same("authenticate first")
       ELSE IF carts[user_id] = <<>> THEN same("cart is empty")
       ELSE IF data \in CardPayments
       THEN Outcome([session EXCEPT !.payment_info = data[2]], schedules,
                    returned, "payment details")
       ELSE same("none")

\* _handle_payment_confirmation_from_group: schedule_id = parts[2],
\* payment_number = int(parts[3]), then mark_payment_made; every exception
\* ends in the answer of the handler's except branch.
PaymentConfirmationFromGroup(user_id, data) ==
    LET session == user_sessions[user_id]
        same(reply) == Outcome(session, schedules, returned, reply)
        number == IF Len(data) >= 4 THEN ParseInt(data[4])
                  ELSE [ok |-> FALSE, value |-> 0]
        named == {k \in DOMAIN schedules : ScheduleIdParts(k) = <<data[3]>>}
    IN IF ~number.ok THEN same("error in request")
       ELSE IF named = {} THEN same("error recording payment")
       ELSE LET marked == MarkOutcome(schedules, CHOOSE k \in named : TRUE,
                                      number.value, "ok")
            IN Outcome(session, marked.schedules, marked.returned,
                       "payment confirmed")

\* The variant of the remind-tomorrow handler that moves the due dates of
\* every schedule on by a day.
StoreAfterRemindTomorrowPostponed(store, data) ==
    [k \in DOMAIN store |->
        IF PaymentType(store[k]) = "60day"
        THEN [store[k] EXCEPT !.payment_date = @ + 1]
        ELSE [store[k] EXCEPT
                 !.payment_dates = [i \in 1..Len(@) |-> @[i] + 1]]]

\* _handle_contact_made_from_group and _handle_remind_tomorrow_from_group
\* edit the message and answer the query: the store is as it was.
StoreAfterContactMade(store, data) == store

StoreAfterRemindTomorrow(store, data) == store

\* The handler runs on the callback data.
Dispatch(handler, user_id, data) ==
    LET session == user_sessions[user_id]
    IN CASE handler = "_handle_payment_selection" ->
                PaymentSelection(user_id, data)
         [] handler = "_handle_payment_confirmation_from_group" ->
                PaymentConfirmationFromGroup(user_id, data)
         [] handler = "_handle_contact_made_from_group" ->
                Outcome(session, StoreAfterContactMade(schedules, data),
                        returned, "contact made")
         [] handler = "_handle_remind_tomorrow_from_group" ->
                Outcome(session, StoreAfterRemindTomorrow(schedules, data),
                        returned, "reminder tomorrow")
         [] OTHER -> Outcome(session, schedules, returned, "none")

\* button_callback for callback data the routing dictionary does not hold.
ButtonCallback(user_id, data) ==
    /\ Idle
    /\ LET handler == Route(data)
           outcome == Dispatch(handler, user_id, data)
       IN /\ user_sessions' = [user_sessions EXCEPT ![user_id] = outcome.session]
          /\ schedules' = outcome.schedules
          /\ returned' = outcome.returned
          /\ handled' = Reply(handler, user_id, outcome.reply)
    /\ UNCHANGED <<orders, counter, clock, bot, calls, running, tasks,
                   invoiceSeq, carts, inflight, scanned>>

\* A button of a reminder the last scan dispatched is pressed.
PressReminderButton(user_id, button, reminder) ==
    /\ reminder \in scanned.reminders
    /\ ButtonCallback(user_id,
           ReminderCallbackData(button, reminder.schedule_id,
                                reminder.payment_number))

\* handle_photo_message: the photo is kept when the session awaits a
\* receipt, which a 60-day payment does not.
HandlePhotoMessage(user_id) ==
    /\ Idle
    /\ IF user_sessions[user_id].payment_info \in {"cash", "90day"}
       THEN /\ user_sessions' = [user_sessions EXCEPT
                                    ![user_id].receipt_photo = TRUE]
            /\ handled' = Reply("handle_photo_message", user_id, "final invoice")
       ELSE /\ handled' = Reply("handle_photo_message", user_id,
                                "choose a payment method")
            /\ UNCHANGED user_sessions
    /\ UNCHANGED <<orders, counter, clock, bot, calls, running, tasks,
                   invoiceSeq, carts, scheduler>>

\* discount_rate of the payment_info _handle_card_to_card_payment stored.
DiscountOf(payment_type) ==
    IF payment_type = "cash" THEN CashRate ELSE DeferredRate

\* _handle_payment_terms_confirmation.  The schedule of a 60-day or 90-day
\* payment is added under an id made up on the spot; the lines after the
\* upload prompt read names the function never binds, and the NameError
\* ends in the reply of button_callback's except branch.
HandlePaymentTermsConfirmation(user_id, now, today) ==
    /\ Idle
    /\ LET handler == "_handle_payment_terms_confirmation"
           session == user_sessions[user_id]
           order_id == HandlerOrderId(user_id, now)
           schedule_id == ScheduleId(user_id, order_id, today)
       IN IF ~session.authenticated
          THEN Answers(handler, user_id, "authenticate first")
          ELSE IF session.payment_info = "none"
          THEN Answers(handler, user_id, "no payment info")
          ELSE IF session.payment_info = "cash"
          THEN Answers(handler, user_id, "error")
          ELSE /\ Cardinality(DOMAIN schedules) < MaxSchedules
               /\ clock' = today
               /\ schedules' = PutSchedule(schedules, schedule_id,
                      IF session.payment_info = "60day"
                      THEN NewSchedule60(user_id, order_id, today)
                      ELSE NewSchedule90(user_id, order_id, today))
               /\ returned' = "true"
               /\ handled' = Reply(handler, user_id, "error")
               /\ UNCHANGED <<orders, counter, bot, calls, running, tasks,
                              invoiceSeq, carts, inflight, scanned,
                              user_sessions>>

\* The handler calls create_order with the cart of the user and waits for
\* it.
AwaitCreateOrder(handler, user_id, discount_rate, now, cnt, sv) ==
    /\ CreateOrderCall(user_id, carts[user_id], discount_rate, now, cnt, sv)
    /\ handled' = [handler |-> handler, user |-> user_id,
                   pc |-> "create_order", call |-> Len(calls) + 1,
                   reply |-> "none"]

\* _handle_payment_receipt_confirmation up to its create_order.
HandlePaymentReceiptConfirmation(user_id, now, cnt, sv) ==
    /\ Idle
    /\ LET handler == "_handle_payment_receipt_confirmation"
           session == user_sessions[user_id]
       IN IF ~session.authenticated
          THEN Answers(handler, user_id, "authenticate first")
          ELSE IF session.payment_info = "none"
          THEN Answers(handler, user_id, "no payment info")
          ELSE IF carts[user_id] = <<>>
          THEN Answers(handler, user_id, "cart is empty")
          ELSE /\ AwaitCreateOrder(handler, user_id,
                                   DiscountOf(session.payment_info), now, cnt, sv)
               /\ UNCHANGED <<bot, running, tasks, invoiceSeq, carts,
                              scheduler, user_sessions>>

\* _handle_order_confirmation up to its create_order.
HandleOrderConfirmation(user_id, now, cnt, sv) ==
    /\ Idle
    /\ LET handler == "_handle_order_confirmation"
           session == user_sessions[user_id]
       IN IF ~session.authenticated
          THEN Answers(handler, user_id, "authenticate first")
          ELSE IF ~session.pending_order
          THEN Answers(handler, user_id, "no order info")
          ELSE IF carts[user_id] = <<>>
          THEN Answers(handler, user_id, "cart is empty")
          ELSE /\ AwaitCreateOrder(handler, user_id, CashRate, now, cnt, sv)
               /\ UNCHANGED <<bot, running, tasks, invoiceSeq, carts,
                              scheduler, user_sessions>>

\* _handle_60day_order_confirmation up to its create_order: the schedule
\* is added first, under an id made up on the spot, and the cart is not
\* looked at.
Handle60DayOrderConfirmation(user_id, now, today, cnt, sv) ==
    /\ Idle
    /\ LET handler == "_handle_60day_order_confirmation"
           session == user_sessions[user_id]
           order_id == HandlerOrderId(user_id, now)
       IN IF ~session.authenticated
          THEN Answers(handler, user_id, "authenticate first")
          ELSE IF session.payment_info # "60day"
          THEN Answers(handler, user_id, "no 60-day order info")
          ELSE /\ Cardinality(DOMAIN schedules) < MaxSchedules
               /\ schedules' = PutSchedule(schedules,
                      ScheduleId(user_id, order_id, today),
                      NewSchedule60(user_id, order_id, today))
               /\ returned' = "true"
               /\ AwaitCreateOrder(handler, user_id,
                                   DiscountOf(session.payment_info), today,
                                   cnt, sv)
               /\ UNCHANGED <<bot, running, tasks, invoiceSeq, carts,
                              inflight, scanned, user_sessions>>

\* The variant that clears the cart in every case.
CartAfterCreateOrderAlways(cart_items, result) == <<>>

\* clear_cart stands after create_order inside the try block.
CartAfterCreateOrder(cart_items, result) ==
    IF result = "order_id" THEN <<>> ELSE cart_items

\* The session entries the handler deletes after clear_cart.
SessionAfterCreateOrder(handler, session, result) ==
    IF result # "order_id" THEN session
    ELSE CASE handler = "_handle_payment_receipt_confirmation" ->
                  [session EXCEPT !.payment_info = "none",
                                  !.receipt_photo = FALSE]
           [] handler = "_handle_order_confirmation" ->
                  [session EXCEPT !.pending_order = FALSE]
           [] OTHER -> [session EXCEPT !.payment_info = "none"]

\* create_order has returned or raised, and the handler runs to its end.
HandlerReturns ==
    /\ handled.pc = "create_order"
    /\ running = 0
    /\ calls[handled.call].pc = "done"
    /\ LET user_id == handled.user
           result == calls[handled.call].result
       IN /\ carts' = [carts EXCEPT
                          ![user_id] = CartAfterCreateOrder(@, result)]
          /\ user_sessions' = [user_sessions EXCEPT
                 ![user_id] = SessionAfterCreateOrder(handled.handler, @, result)]
          /\ handled' = [handled EXCEPT
                 !.pc = "done",
                 !.reply = IF result = "order_id" THEN "order registered"
                           ELSE "error"]
    /\ UNCHANGED <<orders, counter, clock, bot, calls, running, tasks,
                   invoiceSeq, scheduler>>

\* A reseller authenticates, fills the cart, chooses a payment and confirms;
\* create_order may fail to save.  A handler and the calls it makes read the
\* same second.  No bot is set: the notifications of
\* create_order, which touch no store, are left to Spec.
NextCheckout ==
    \/ Authenticate(1)
    \/ Idle /\ AddToCart(1, CartItem("p1", 100, 1))
    \/ \E data \in CardPayments : ButtonCallback(1, data)
    \/ HandlePhotoMessage(1)
    \/ \E now \in AddTimes : HandlePaymentTermsConfirmation(1, now, now)
    \/ \E now \in AddTimes, sv \in {"ok", "open_failed"} :
           HandlePaymentReceiptConfirmation(1, now, "ok", sv)
    \/ \E now \in AddTimes, sv \in {"ok", "open_failed"} :
           HandleOrderConfirmation(1, now, "ok", sv)
    \/ \E now \in AddTimes, sv \in {"ok", "open_failed"} :
           Handle60DayOrderConfirmation(1, now, now, "ok", sv)
    \/ HandlerReturns

SpecCheckout == Init /\ [][NextCheckout]_vars

\* The schedule store, the daily scan, and staff (user 2) pressing the
\* buttons of the reminders.
NextButtons ==
    \/ NextReminders
    \/ Authenticate(2)
    \/ \E button \in ReminderButtons : \E reminder \in scanned.reminders :
           PressReminderButton(2, button, reminder)

SpecButtons == Init /\ [][NextButtons]_vars

\* ================================================================== claims
\* The update_order_status calls that found their order.
UpdateCalls == {c \in CallIds : calls[c].kind = "update" /\ calls[c].old_status # "none"}

\* The call has got past its _save_order.
Saved(c) ==
    calls[c].pc \in {"bridge", "notify", "send"} \/ calls[c].result = "true"

\* The step is the _save_order of the running update call.
IsUpdateSave == running # 0 /\ calls[running].pc = "save"

\* The history entry call c appends.
EntryOf(c) == HistoryEntry(calls[c].target, AdminName(c))

HasEntry(history, entry) == \E i \in 1..Len(history) : history[i] = entry

Last(seq) == seq[Len(seq)]

\* C1: an update_order_status call on an order whose status is completed or
\* cancelled returns failure and leaves the stored record as it was.
C1_TerminalLeftUnchanged ==
    [][IsUpdateSave /\ calls[running].old_status \in TerminalStatus
          => orders' = orders]_vars

C1_TerminalReturnsFailure ==
    \A c \in UpdateCalls :
        calls[c].old_status \in TerminalStatus => calls[c].result # "true"

C1_TerminalUpdateRejected ==
    []C1_TerminalReturnsFailure /\ C1_TerminalLeftUnchanged

\* C2: an update_order_status call on an order whose status is not terminal
\* returns success, whatever the target status; its save appends exactly
\* one history entry, sets status to the target and sets updated_at to a
\* value not below the previous one.
C2_NonTerminalReturnsSuccess ==
    \A c \in UpdateCalls :
        /\ calls[c].old_status \notin TerminalStatus
        /\ calls[c].pc = "done"
        => calls[c].result = "true"

C2_SaveAppendsOneEntry ==
    [][IsUpdateSave /\ calls[running].old_status \notin TerminalStatus
          => LET id == calls[running].order
                 before == orders[id]
                 after == orders'[id]
             IN /\ IsOrder(after)
                /\ after.status = calls[running].target
                /\ Len(after.status_history) = Len(before.status_history) + 1
                /\ SubSeq(after.status_history, 1, Len(before.status_history))
                       = before.status_history
                /\ Last(after.status_history).status = calls[running].target
                /\ after.updated_at >= before.updated_at]_vars

C2_NonTerminalUpdateSucceeds ==
    []C2_NonTerminalReturnsSuccess /\ C2_SaveAppendsOneEntry

\* A call has taken a pending order straight to shipped and returned True.
C2_Witness ==
    \E c \in UpdateCalls :
        /\ calls[c].old_status = "pending"
        /\ calls[c].target = "shipped"
        /\ calls[c].result = "true"
        /\ orders[calls[c].order].status = "shipped"
        /\ Len(orders[calls[c].order].status_history) = 2

\* The entries update_order_status and create_order write, without the
\* annotations of the invoicing write-back.
IsBridgeEntry(entry) == entry.status \in {"hesabfa_created", "hesabfa_error"}

StatusEntries(history) == SelectSeq(history, LAMBDA e : ~IsBridgeEntry(e))

\* C3 as stated: in every stored order status_history is not empty and the
\* status of its last entry is the order's status.
C3_LastEntryIsStatus ==
    \A id \in OrderIds :
        IsOrder(orders[id]) =>
            /\ Len(orders[id].status_history) >= 1
            /\ Last(orders[id].status_history).status = orders[id].status

\* C3, amended: in every stored order status_history is not empty and the
\* status of its last entry other than the hesabfa_created / hesabfa_error
\* annotations is the order's status.
C3_LastStatusEntryIsStatus ==
    \A id \in OrderIds :
        IsOrder(orders[id]) =>
            /\ Len(orders[id].status_history) >= 1
            /\ StatusEntries(orders[id].status_history) # <<>>
            /\ Last(StatusEntries(orders[id].status_history)).status
                   = orders[id].status

\* The write-back has annotated an order that was updated before and after.
C3_Witness ==
    \E id \in OrderIds :
        /\ IsOrder(orders[id])
        /\ IsBridgeEntry(Last(orders[id].status_history))
        /\ Len(StatusEntries(orders[id].status_history)) >= 2
        /\ orders[id].status = "confirmed"

\* C4: when two update_order_status calls on one order have both saved (and
\* so return success), in whatever interleaving, the stored record holds
\* the history entries of both.
C4_NoLostUpdate ==
    \A c1, c2 \in UpdateCalls :
        /\ c1 # c2
        /\ calls[c1].order = calls[c2].order
        /\ Saved(c1) /\ Saved(c2)
        => /\ IsOrder(orders[calls[c1].order])
           /\ HasEntry(orders[calls[c1].order].status_history, EntryOf(c1))
           /\ HasEntry(orders[calls[c1].order].status_history, EntryOf(c2))

\* Two calls on one order are both waiting for their notification sends.
C4_Witness ==
    \E c1, c2 \in UpdateCalls :
        /\ c1 # c2
        /\ calls[c1].order = calls[c2].order
        /\ calls[c1].pc = "send" /\ calls[c2].pc = "send"
        /\ calls[c1].target # calls[c2].target

\* The number of hesabfa_created entries of a history.
CreatedEntries(history) ==
    Len(SelectSeq(history, LAMBDA e : e.status = "hesabfa_created"))

\* C5: the hesabfa fields of an order are written at most once: once set
\* they are never overwritten, and an order's history never holds more than
\* one hesabfa_created entry.
C5_OneCreatedEntry ==
    \A id \in OrderIds :
        IsOrder(orders[id]) => CreatedEntries(orders[id].status_history) <= 1

C5_NeverOverwritten ==
    [][\A id \in OrderIds :
          IsOrder(orders[id]) /\ orders[id].hesabfa_invoice_id # 0
          => /\ IsOrder(orders'[id])
             /\ orders'[id].hesabfa_invoice_id = orders[id].hesabfa_invoice_id
             /\ orders'[id].hesabfa_invoice_number
                    = orders[id].hesabfa_invoice_number]_vars

C5_InvoiceWrittenOnce == []C5_OneCreatedEntry /\ C5_NeverOverwritten

\* C6: when update_order_status reaches the creation of the invoicing task
\* and when it reaches its first notification send, the stored record
\* carries the new status and the call's history entry; every invoicing
\* task waiting to run belongs to an order whose stored history already
\* holds a confirmed entry.
C6_PersistedBeforeSideEffects ==
    /\ running # 0 /\ calls[running].pc \in {"bridge", "notify"}
       => LET stored == orders[calls[running].order]
          IN /\ IsOrder(stored)
             /\ stored.status = calls[running].target
             /\ Last(stored.status_history) = EntryOf(running)
    /\ \A i \in 1..Len(tasks) :
          /\ IsOrder(orders[tasks[i].order])
          /\ \E k \in 1..Len(orders[tasks[i].order].status_history) :
                 orders[tasks[i].order].status_history[k].status = "confirmed"

\* A confirming call is about to create the invoicing task.
C6_Witness ==
    /\ running # 0
    /\ calls[running].pc = "bridge"
    /\ calls[running].target = "confirmed"
    /\ calls[running].old_status = "pending"
    /\ orders[calls[running].order].status = "confirmed"

\* C7: an invoicing task is created exactly by the update_order_status
\* calls whose new_status is confirmed on an order without
\* hesabfa_invoice_id, and by nothing else; so an order with hesabfa fields
\* has a confirmed entry in its history.
C7_TriggeredIffConfirmed ==
    [][Len(tasks') > Len(tasks)
          <=> /\ running # 0
              /\ calls[running].pc = "bridge"
              /\ calls[running].target = "confirmed"
              /\ orders[calls[running].order].hesabfa_invoice_id = 0]_vars

C7_InvoicedWasConfirmed ==
    \A id \in OrderIds :
        IsOrder(orders[id])
        /\ (orders[id].hesabfa_invoice_id # 0
                \/ orders[id].hesabfa_invoice_number # 0)
        => \E k \in 1..Len(orders[id].status_history) :
               orders[id].status_history[k].status = "confirmed"

C7_BridgeOnlyOnConfirmed == []C7_InvoicedWasConfirmed /\ C7_TriggeredIffConfirmed

\* An order carries an invoice id, and a call with another target has gone
\* past line 320 without creating a task.
C7_Witness ==
    /\ \E id \in OrderIds :
          IsOrder(orders[id]) /\ orders[id].hesabfa_invoice_id # 0
    /\ \E c \in UpdateCalls :
          calls[c].target = "shipped" /\ Saved(c) /\ ~calls[c].triggered

\* The step is a run of _process_hesabfa_invoice in which the bridge fails.
IsFailedInvoicing == tasks # <<>> /\ tasks' = Tail(tasks) /\ invoiceSeq' = invoiceSeq

\* C8: a failing invoicing bridge changes neither the order's status nor
\* its hesabfa fields and appends a hesabfa_error entry to its history; it
\* changes the result of no update_order_status call, and the call that
\* created the task never returns failure.
C8_FailureOnlyAnnotates ==
    [][IsFailedInvoicing
          => LET id == Head(tasks).order
             IN /\ IsOrder(orders'[id])
                /\ orders'[id].status = orders[id].status
                /\ orders'[id].hesabfa_invoice_id = orders[id].hesabfa_invoice_id
                /\ orders'[id].hesabfa_invoice_number
                       = orders[id].hesabfa_invoice_number
                /\ orders'[id].status_history
                       = Append(orders[id].status_history,
                                HistoryEntry("hesabfa_error", "system"))
                /\ calls' = calls]_vars

C8_TriggeringCallSucceeds ==
    \A c \in UpdateCalls :
        calls[c].triggered =>
            /\ calls[c].result # "false"
            /\ calls[c].pc = "done" => calls[c].result = "true"

C8_BridgeFailureHarmless == []C8_TriggeringCallSucceeds /\ C8_FailureOnlyAnnotates

\* The bridge has failed for a confirmed order: its history ends with the
\* error entry, it has no invoice id, and the confirming call returned True.
C8_Witness ==
    \E c \in UpdateCalls :
        /\ calls[c].triggered
        /\ calls[c].result = "true"
        /\ orders[calls[c].order].status = "confirmed"
        /\ orders[calls[c].order].hesabfa_invoice_id = 0
        /\ Last(orders[calls[c].order].status_history).status = "hesabfa_error"

\* C9: an update_order_status call all of whose notification sends fail
\* still returns success, and its status change stays in the stored record.
C9_NotifyFailureKeepsUpdate ==
    \A c \in UpdateCalls :
        calls[c].pc = "done" /\ calls[c].received = "failed"
        => /\ calls[c].result = "true"
           /\ IsOrder(orders[calls[c].order])
           /\ HasEntry(orders[calls[c].order].status_history, EntryOf(c))

\* Every send of a cancelling call failed, and the order is cancelled.
C9_Witness ==
    \E c \in UpdateCalls :
        /\ calls[c].pc = "done"
        /\ calls[c].received = "failed"
        /\ calls[c].target = "cancelled"
        /\ orders[calls[c].order].status = "cancelled"

\* The sends a call has made for its notification so far.
Sends(call) == call.detailedSends + call.plainSends

\* C10: _notify_customer sends the detailed message at most 3 times and a
\* plain message at most twice, every completed send either ends it or is
\* followed by exactly one more send, it never raises (its caller never
\* sees an exception: create_order returns the id, update_order_status has
\* no need of its handler), and a plain send that succeeds delivers the
\* generic message.
C10_BoundedSends ==
    \A c \in CallIds :
        /\ calls[c].detailedSends <= 3
        /\ calls[c].plainSends <= 2
        /\ calls[c].result # "raised"
        /\ calls[c].pc = "send" => calls[c].result = "none"

C10_EachSendProgresses ==
    [][\A c \in CallIds :
          calls[c].pc = "send" /\ calls'[c] # calls[c]
          => \/ /\ calls'[c].pc = "send"
                /\ Sends(calls'[c]) = Sends(calls[c]) + 1
                /\ calls'[c].received = "none"
             \/ /\ calls'[c].pc = "done"
                /\ calls'[c].received \in {"detailed", "generic", "failed"}
                /\ calls[c].phase # "detailed"
                       => calls'[c].received \in {"generic", "failed"}
                /\ calls'[c].received = "failed"
                       => calls[c].phase = "emergency"]_vars

C10_NotifyBoundedAndSilent == []C10_BoundedSends /\ C10_EachSendProgresses

\* The three detailed sends of a call failed and a plain send reached the
\* customer.
C10_Witness ==
    \E c \in CallIds :
        calls[c].pc = "done" /\ calls[c].received = "generic"

\* The step starts a create_order call; the call is the last of calls'.
IsCreateStep == Len(calls') = Len(calls) + 1 /\ Last(calls').kind = "create"

\* The create_order calls that have returned an order id.
CreatedCalls ==
    {c \in CallIds : calls[c].kind = "create" /\ calls[c].result = "order_id"}

\* The update_order_status calls that got as far as saving order id.
UpdatesOf(id) == {c \in UpdateCalls : calls[c].order = id /\ Saved(c)}

\* C11: the record create_order persists has status pending and a history
\* of exactly one entry, whose status is pending; and it is still so when
\* create_order has returned, unless an update_order_status call on the
\* order got in first.
C11_PersistedAsPending ==
    [][IsCreateStep /\ Last(calls').result # "raised"
          => LET stored == orders'[Last(calls').order]
             IN /\ IsOrder(stored)
                /\ stored.status = "pending"
                /\ Len(stored.status_history) = 1
                /\ stored.status_history[1].status = "pending"]_vars

C11_ReturnedAsPending ==
    \A c \in CreatedCalls :
        UpdatesOf(calls[c].order) = {}
        => LET stored == orders[calls[c].order]
           IN /\ IsOrder(stored)
              /\ stored.status = "pending"
              /\ Len(stored.status_history) = 1
              /\ stored.status_history[1].status = "pending"

C11_CreatedPending == []C11_ReturnedAsPending /\ C11_PersistedAsPending

\* create_order has notified the customer and returned the id of an order
\* that is stored as pending with its one history entry.
C11_Witness ==
    \E c \in CreatedCalls :
        /\ calls[c].received # "none"
        /\ orders[calls[c].order].status = "pending"
        /\ Len(orders[calls[c].order].status_history) = 1

\* C12: create_order with an empty cart_items is rejected: no call with an
\* empty cart returns an order id, no order with an empty cart is stored,
\* and the step of such a call leaves the order counter as it was.
C12_NoEmptyCartOrder ==
    \A id \in OrderIds : IsOrder(orders[id]) => orders[id].cart_items # <<>>

C12_CounterKept ==
    [][IsCreateStep /\ IsOrder(orders'[Last(calls').order])
          /\ orders'[Last(calls').order].cart_items = <<>>
          => counter' = counter /\ Last(calls').result = "raised"]_vars

C12_EmptyCartRejected == []C12_NoEmptyCartOrder /\ C12_CounterKept

\* The sum of price * quantity over a cart.
CartValue(cart_items) ==
    LET sum[i \in 0..Len(cart_items)] ==
            IF i = 0 THEN 0
            ELSE sum[i - 1] + cart_items[i].price * cart_items[i].quantity
    IN sum[Len(cart_items)]

\* The pricing the formulas of C13 give for a cart and a rate of
\* percent/100.
ExactPricing(cart_items, percent) ==
    LET subtotal == CartValue(cart_items)
        discount == (subtotal * percent) \div 100
        tax == ((subtotal - discount) * 9) \div 100
    IN [subtotal |-> subtotal, discount |-> discount, tax |-> tax,
        total |-> subtotal - discount + tax]

\* C13: every stored order of a non-empty cart carries subtotal = the sum
\* of price * quantity, discount = floor(subtotal * rate), tax =
\* floor((subtotal - discount) * 0.09) and total = subtotal - discount + tax.
C13_PricingIsExact ==
    \A id \in OrderIds :
        IsOrder(orders[id]) /\ orders[id].cart_items # <<>>
        => LET stored == orders[id].pricing
               exact == ExactPricing(orders[id].cart_items,
                                     stored.discount_rate.percent)
           IN /\ stored.subtotal = exact.subtotal
              /\ stored.discount = exact.discount
              /\ stored.tax = exact.tax
              /\ stored.total = exact.total

\* C14: a create_order call that returns an id returns one under which no
\* order was stored before, so it overwrites no order record, also when
\* the id is the timestamp fallback; and the ids taken from the counter
\* grow strictly.
C14_FreshId ==
    [][IsCreateStep /\ Last(calls').result # "raised"
          => ~IsOrder(orders[Last(calls').order])]_vars

C14_CounterIdsGrow ==
    [][IsCreateStep /\ Last(calls').order \in CounterIds
          => /\ Last(calls').order > counter
             /\ \A c \in CallIds :
                    calls[c].kind = "create" /\ calls[c].order \in CounterIds
                    => calls[c].order < Last(calls').order]_vars

C14_OrderIdsUnique == C14_FreshId /\ C14_CounterIdsGrow

\* The step starts an update_order_status call; the call is the last of
\* calls'.
IsUpdateStep == Len(calls') = Len(calls) + 1 /\ Last(calls').kind = "update"

\* C15: update_order_status on an order id with no stored record returns
\* False at once and changes nothing: no order file, no invoicing task, no
\* notification send.
C15_NotFoundStep ==
    [][IsUpdateStep /\ ~IsOrder(orders[Last(calls').order])
          => /\ Last(calls').pc = "done"
             /\ Last(calls').result = "false"
             /\ orders' = orders
             /\ counter' = counter
             /\ tasks' = tasks
             /\ invoiceSeq' = invoiceSeq
             /\ running' = 0]_vars

C15_NotFoundCalls ==
    \A c \in CallIds :
        calls[c].kind = "update" /\ calls[c].old_status = "none"
        => /\ calls[c].pc = "done"
           /\ calls[c].result = "false"
           /\ ~calls[c].triggered
           /\ calls[c].received = "none"
           /\ Sends(calls[c]) = 0

C15_UnknownOrderRejected == []C15_NotFoundCalls /\ C15_NotFoundStep

\* An update on an id with no record has returned False while another
\* order exists.
C15_Witness ==
    \E c \in CallIds :
        /\ calls[c].kind = "update"
        /\ calls[c].old_status = "none"
        /\ calls[c].result = "false"
        /\ ~IsOrder(orders[calls[c].order])
        /\ \E id \in OrderIds : IsOrder(orders[id])

\* The record under the id of the create_order call this step starts is
\* the order the call built.
StoredByCreateStep ==
    LET stored == orders'[Last(calls').order]
    IN /\ IsOrder(stored)
       /\ stored.order_id = Last(calls').order
       /\ stored.status = "pending"
       /\ stored.created_at = clock'

\* C16: create_order never raises because of its notifications: a call
\* that has got to them raises nothing and, once any send was made,
\* returns the order id; it raises exactly when _save_order failed, which
\* leaves the order directory as it was or the order file truncated.
C16_NotificationsNeverRaise ==
    \A c \in CallIds :
        calls[c].kind = "create"
        => /\ calls[c].pc \in {"support", "send"} => calls[c].result = "none"
           /\ calls[c].received # "none" => calls[c].result \in {"none", "order_id"}
           /\ calls[c].pc = "done" => calls[c].result \in {"order_id", "raised"}

C16_RaisesIffSaveFailed ==
    [][IsCreateStep
          => /\ Last(calls').result # "raised" => StoredByCreateStep
             /\ Last(calls').result = "raised"
                    => \/ orders' = orders
                       \/ orders'[Last(calls').order] = CorruptFile]_vars

C16_CreateRaisesOnlyOnSave ==
    []C16_NotificationsNeverRaise /\ C16_RaisesIffSaveFailed

\* One create_order returned its id although every customer send failed,
\* and another raised on its save.
C16_Witness ==
    /\ \E c \in CreatedCalls :
          calls[c].received = "failed" /\ IsOrder(orders[calls[c].order])
    /\ \E c \in CallIds :
          calls[c].kind = "create" /\ calls[c].result = "raised"

\* C17: a failed _save_order in create_order or update_order_status makes
\* the call report failure and leaves the stored state as it was before
\* the call: the order files and the order counter.
C17_FailedCreateLeavesNothing ==
    [][IsCreateStep /\ Last(calls').result = "raised"
          => orders' = orders /\ counter' = counter]_vars

C17_FailedUpdateLeavesNothing ==
    [][IsUpdateSave /\ calls'[running].result = "false"
          => orders' = orders /\ counter' = counter]_vars

C17_FailedSaveReported ==
    [][/\ IsUpdateSave /\ orders'[calls[running].order] # calls[running].local
          => calls'[running].result = "false"]_vars

C17_FailedSaveIsNoOp ==
    /\ C17_FailedCreateLeavesNothing
    /\ C17_FailedUpdateLeavesNothing
    /\ C17_FailedSaveReported

\* C18: the status of every stored order is one of the nine OrderStatus
\* values, whatever new_status arguments update_order_status was called
\* with.
C18_StatusInEnumeration ==
    \A id \in OrderIds : IsOrder(orders[id]) => orders[id].status \in OrderStatus

\* The fields of order id that create_order sets for good are as they were.
KeepsCreatedFields(id) ==
    /\ IsOrder(orders'[id])
    /\ orders'[id].order_id = orders[id].order_id
    /\ orders'[id].user_id = orders[id].user_id
    /\ orders'[id].cart_items = orders[id].cart_items
    /\ orders'[id].pricing = orders[id].pricing
    /\ orders'[id].created_at = orders[id].created_at

\* The step is a run of _process_hesabfa_invoice.
IsWriteBack == tasks # <<>> /\ tasks' = Tail(tasks)

\* C19: no step changes order_id, user_id, cart_items, pricing or
\* created_at of a stored order or removes its record; a run of the
\* invoicing write-back changes nothing but the hesabfa fields and the
\* history of its order; and a change of a cart changes no order.
C19_CreatedFieldsKept ==
    [][\A id \in OrderIds : IsOrder(orders[id]) => KeepsCreatedFields(id)]_vars

C19_WriteBackFrame ==
    [][IsWriteBack
          => \A id \in OrderIds :
                 IF id = Head(tasks).order /\ IsOrder(orders[id])
                 THEN orders'[id] =
                          [orders[id] EXCEPT
                              !.hesabfa_invoice_id = orders'[id].hesabfa_invoice_id,
                              !.hesabfa_invoice_number =
                                  orders'[id].hesabfa_invoice_number,
                              !.status_history = orders'[id].status_history]
                 ELSE orders'[id] = orders[id]]_vars

C19_CartLeavesOrders == [][carts' # carts => orders' = orders]_vars

C19_OrderFrame ==
    C19_CreatedFieldsKept /\ C19_WriteBackFrame /\ C19_CartLeavesOrders

\* An order made from a cart was confirmed and invoiced, and the user's
\* cart has changed since.
C19_Witness ==
    \E id \in OrderIds :
        /\ IsOrder(orders[id])
        /\ orders[id].cart_items # <<>>
        /\ orders[id].hesabfa_invoice_id # 0
        /\ orders[id].status = "confirmed"
        /\ carts[orders[id].user_id] # orders[id].cart_items
        /\ \E c \in CreatedCalls : calls[c].order = id

\* Every installment of the schedule's plan is in payments_made: the
\* indices 0, 1 and 2 of a 90-day plan, the one marker of a 60-day plan.
AllInstallmentsPaid(schedule) ==
    IF PaymentType(schedule) = "60day"
    THEN schedule.payments_made # <<>>
    ELSE \A i \in {0, 1, 2} : IsMember(i, schedule.payments_made)

\* C20: in every state of the schedule store a schedule has status
\* completed exactly when all installments of its plan are in
\* payments_made.
C20_CompletedIffAllPaid ==
    \A k \in DOMAIN schedules :
        schedules[k].status = "completed" <=> AllInstallmentsPaid(schedules[k])

\* The half of C20 that cancellation does not touch: a completed 90-day
\* schedule holds all three installments.
C20_CompletedOnlyIfAllPaid ==
    \A k \in DOMAIN schedules :
        schedules[k].status = "completed" => AllInstallmentsPaid(schedules[k])

\* The installment indices a schedule holds as paid.
Indices(schedule) ==
    {schedule.payments_made[i] : i \in 1..Len(schedule.payments_made)}

\* A 90-day schedule that was only ever marked with the numbers 1, 2 and 3:
\* payments_made holds indices among 0, 1 and 2, each once.
MarkedWithin123(schedule) ==
    /\ PaymentType(schedule) # "60day"
    /\ Indices(schedule) \subseteq {0, 1, 2}
    /\ Cardinality(Indices(schedule)) = Len(schedule.payments_made)

\* One mark_payment_made call with a number from 1 to 3 on such a schedule
\* adds the index of that number and nothing else, and with the third
\* index the schedule is completed.
C21_MarkAddsIndex ==
    \A k \in ScheduleIds, n \in 1..3 :
        ( /\ k \in DOMAIN schedules
          /\ MarkedWithin123(schedules[k])
          /\ MarkPaymentMade(k, n, "ok") )
        => /\ MarkedWithin123(schedules'[k])
           /\ Indices(schedules'[k]) = Indices(schedules[k]) \cup {n - 1}
           /\ Indices(schedules'[k]) = {0, 1, 2}
                 => schedules'[k].status = "completed"

\* Where the calls end: with all of 1, 2 and 3 marked the schedule is
\* completed, unless it was cancelled after the last of them.
C21_AllMarkedIsCompleted ==
    \A k \in DOMAIN schedules :
        ( /\ MarkedWithin123(schedules[k])
          /\ Indices(schedules[k]) = {0, 1, 2}
          /\ schedules[k].status # "cancelled" )
        => /\ schedules[k].status = "completed"
           /\ schedules[k].payments_made = <<0, 1, 2>>

\* C21: on a 90-day schedule, mark_payment_made calls with numbers from
\* 1 to 3 that include 1, 2 and 3, in any order and with repetitions, end
\* with the status completed and payments_made holding exactly the indices
\* 0, 1 and 2.
C21_MarksCompleteSchedule ==
    []C21_AllMarkedIsCompleted /\ [][C21_MarkAddsIndex]_vars

\* A 90-day schedule has been marked with 1, 2 and 3 and is completed.
C21_Witness ==
    \E k \in DOMAIN schedules :
        /\ PaymentType(schedules[k]) = "90day"
        /\ schedules[k].payments_made = <<0, 1, 2>>
        /\ schedules[k].status = "completed"
        /\ returned = "true"

\* C22: one mark_payment_made call on a 60-day schedule, whatever its
\* payment_number and whatever the schedule's status, leaves the schedule
\* completed.
C22_SixtyDayMarkCompletes ==
    [][\A k \in ScheduleIds, n \in 0..MaxPaymentNumber :
          ( /\ k \in DOMAIN schedules
            /\ PaymentType(schedules[k]) = "60day"
            /\ MarkPaymentMade(k, n, "ok") )
          => schedules'[k].status = "completed"]_vars

\* A 60-day schedule has been marked.
C22_Witness ==
    \E k \in DOMAIN schedules :
        /\ PaymentType(schedules[k]) = "60day"
        /\ schedules[k].payments_made = <<0>>
        /\ schedules[k].status = "completed"
        /\ returned = "true"

\* The days a schedule of the model can name.
Days == 0..(MaxSchedules + 90)

\* C23: in every state, on every day, get_pending_reminders returns no
\* reminder for an installment whose index is in payments_made and none
\* for a schedule that is cancelled or completed.
C23_NoReminderForPaidOrClosed ==
    \A today \in Days :
        \A r \in GetPendingReminders(schedules, today) :
            /\ schedules[r.schedule_id].status \notin {"cancelled", "completed"}
            /\ ~IsMember(r.payment_number - 1,
                         schedules[r.schedule_id].payments_made)

\* The scan ran on the day an installment of an active schedule was due,
\* after that installment was marked, and returned nothing for it.
C23_Witness ==
    \E k \in DOMAIN schedules :
        /\ schedules[k].status = "active"
        /\ PaymentType(schedules[k]) = "90day"
        /\ schedules[k].payment_dates[1] = clock
        /\ schedules[k].payments_made = <<0>>
        /\ scanned.today = clock
        /\ scanned.reminders = GetPendingReminders(schedules, clock)
        /\ \A r \in scanned.reminders : r.schedule_id # k

\* Installment i of schedule k is due and unpaid on the day: the one
\* payment of an active 60-day schedule with nothing recorded, or an
\* installment of an active 90-day schedule whose index is not recorded.
Due(store, k, i, today) ==
    /\ store[k].status = "active"
    /\ IF PaymentType(store[k]) = "60day"
       THEN /\ i = 1
            /\ store[k].payment_date = today
            /\ store[k].payments_made = <<>>
       ELSE /\ store[k].payment_dates[i] = today
            /\ i - 1 \notin Indices(store[k])

\* The list holds one reminder for every due and unpaid installment and
\* nothing else.
ExactlyTheDue(reminders, store, today) ==
    /\ \A r \in reminders :
           /\ r.schedule_id \in DOMAIN store
           /\ r.payment_number \in 1..3
           /\ Due(store, r.schedule_id, r.payment_number, today)
           /\ r.payment_type = PaymentType(store[r.schedule_id])
           /\ r.payment_date = today
    /\ \A k \in DOMAIN store, i \in 1..3 :
           Due(store, k, i, today)
           => Cardinality({r \in reminders : /\ r.schedule_id = k
                                             /\ r.payment_number = i}) = 1

\* On every store and every day the list is exactly the due reminders.
C24_DueOnEveryDay ==
    \A today \in Days :
        ExactlyTheDue(GetPendingReminders(schedules, today), schedules, today)

\* What a scan returns is exactly the due reminders of the file on the day
\* of the scan.
C24_ScanReturnsDue ==
    SendDailyReminders
    => /\ scanned'.today = clock
       /\ ExactlyTheDue(scanned'.reminders, schedules, clock)

\* C24: get_pending_reminders returns one reminder for each active 60-day
\* schedule whose payment_date is the scan date and that has no payment
\* recorded, one for each installment of an active 90-day schedule whose
\* date is the scan date and whose index is not in payments_made, and
\* nothing else.
C24_ExactReminders ==
    []C24_DueOnEveryDay /\ [][C24_ScanReturnsDue]_vars

\* A scan on the due day of a 60-day schedule returned its reminder and
\* nothing for the other schedule of the file.
C24_Witness ==
    /\ scanned.today = clock
    /\ Cardinality(DOMAIN schedules) = 2
    /\ \E k \in DOMAIN schedules :
           /\ PaymentType(schedules[k]) = "60day"
           /\ scanned.reminders =
                  {[schedule_id |-> k,
                    user_id |-> 1,
                    payment_number |-> 1,
                    payment_type |-> "60day",
                    payment_date |-> clock]}

\* C25: once cancel_payment_schedule has succeeded for a schedule,
\* get_pending_reminders returns no reminder for it again, on any day and
\* whatever is called next: from a state in which the schedule is
\* cancelled no step leads to a store for which some day has a reminder of
\* that schedule.
C25_NoReminderAfterCancel ==
    [][\A k \in DOMAIN schedules :
          schedules[k].status = "cancelled"
          => \A today \in Days :
                 \A r \in GetPendingReminders(schedules', today) :
                     r.schedule_id # k]_vars

\* A send_daily_reminders step leaves the file as it was.
C26_ScanLeavesStore ==
    SendDailyReminders => schedules' = schedules

\* A second call on the same day, on the file the first call left, returns
\* what the first call returned.
C26_SecondCallAgrees ==
    \A today \in Days :
        GetPendingReminders(StoreAfterScan(schedules, today), today)
            = GetPendingReminders(schedules, today)

\* C26: get_pending_reminders leaves the schedule store unchanged, and two
\* calls in a row on the same date return the same reminders.
C26_PureRead ==
    []C26_SecondCallAgrees /\ [][C26_ScanLeavesStore]_vars

\* A scan has returned reminders, and the file still gives that list.
C26_Witness ==
    /\ scanned.today = clock
    /\ scanned.reminders # {}
    /\ scanned.reminders = GetPendingReminders(schedules, clock)
    /\ \E r \in scanned.reminders : r.payment_type = "90day"

\* C27: on a 90-day schedule, mark_payment_made with a payment number
\* whose index is already in payments_made returns True and leaves
\* payments_made and status as they were.
C27_RepeatedMarkChangesNothing ==
    [][\A k \in ScheduleIds, n \in 0..MaxPaymentNumber :
          ( /\ k \in DOMAIN schedules
            /\ PaymentType(schedules[k]) # "60day"
            /\ IsMember(n - 1, schedules[k].payments_made)
            /\ MarkPaymentMade(k, n, "ok") )
          => /\ returned' = "true"
             /\ schedules'[k].payments_made = schedules[k].payments_made
             /\ schedules'[k].status = schedules[k].status]_vars

\* C28: mark_payment_made and cancel_payment_schedule called with a
\* schedule_id that is not in the store return False and leave the store
\* as it was.
C28_UnknownScheduleRejected ==
    [][\A k \in ScheduleIds :
          k \notin DOMAIN schedules
          => /\ \A n \in 0..MaxPaymentNumber :
                    MarkPaymentMade(k, n, "ok")
                    => returned' = "false" /\ schedules' = schedules
             /\ CancelPaymentSchedule(k, "ok")
                    => returned' = "false" /\ schedules' = schedules]_vars

\* A call has named a schedule_id that the store, which holds another
\* schedule, does not have.
C28_Witness ==
    /\ returned = "false"
    /\ schedules # NoSchedules
    /\ ScheduleIds \ DOMAIN schedules # {}

\* The payment that mark_payment_made(schedule_id, n) records is in the
\* schedule.
Recorded(schedule, n) ==
    IF PaymentType(schedule) = "60day"
    THEN schedule.payments_made = <<0>>
    ELSE n - 1 \in Indices(schedule)

\* Every schedule of the first store is in the second with all the
\* payments it had.
KeepsPayments(before, after) ==
    \A k \in DOMAIN before :
        /\ k \in DOMAIN after
        /\ Indices(before[k]) \subseteq Indices(after[k])

\* When a mark_payment_made call opens the file to write, what it is about
\* to write holds every payment the file holds at that moment.
C29_WriteKeepsPayments ==
    \A c \in DOMAIN inflight :
        (inflight[c].op = "mark" /\ SaveOpen(c))
        => KeepsPayments(schedules, inflight[c].new)

\* When a mark_payment_made call returns True, the file holds its payment
\* and every payment it had loaded.
C29_ReturnRecordsPayment ==
    \A c \in DOMAIN inflight :
        (inflight[c].op = "mark" /\ SaveDump(c))
        => /\ returned' = "true"
           /\ inflight[c].schedule_id \in DOMAIN schedules'
           /\ Recorded(schedules'[inflight[c].schedule_id],
                       inflight[c].payment_number)
           /\ KeepsPayments(inflight[c].loaded, schedules')

\* C29: of two mark_payment_made calls that both return True, on the same
\* 90-day schedule with different numbers or on two schedules of the
\* store, neither loses the payment of the other: every call writes the
\* payments that the file holds when it writes, and its own.
C29_NoConfirmationLost ==
    [][C29_WriteKeepsPayments /\ C29_ReturnRecordsPayment]_vars

\* Two calls have marked installments 1 and 2 of one schedule and a third
\* has marked another schedule; all three payments are in the file.
C29_Witness ==
    /\ inflight = <<>>
    /\ returned = "true"
    /\ \E k1, k2 \in DOMAIN schedules :
           /\ k1 # k2
           /\ PaymentType(schedules[k1]) = "90day"
           /\ schedules[k1].payments_made = <<0, 1>>
           /\ schedules[k2].payments_made # <<>>

\* The stores a scan may rightly report while the loop thread is inside a
\* method: the one the method loaded and the one it writes; the file
\* itself when no method is running.
StoresAround ==
    IF inflight = <<>> THEN {schedules}
    ELSE UNION {{inflight[c].loaded, inflight[c].new} : c \in DOMAIN inflight}

\* C30: a scan of the reminder thread that runs while an add, a
\* mark_payment_made or a cancel_payment_schedule is under way leaves the
\* store alone and returns the reminders of the store before that update
\* or of the store after it, never those of a half-written or empty file.
C30_ScanSeesBeforeOrAfter ==
    [][SendDailyReminders
       => /\ schedules' = schedules
          /\ \E store \in StoresAround :
                 scanned'.reminders = GetPendingReminders(store, clock)]_vars

\* What add_60day_payment_schedule leaves under the id of its schedule.
C31_Add60Stores ==
    \A order_id \in CounterIds, now \in Now :
        Add60DayPaymentSchedule(1, order_id, now, "ok")
        => LET s == schedules'[ScheduleId(1, order_id, now)] IN
           /\ returned' = "true"
           /\ s.status = "active"
           /\ s.payments_made = <<>>
           /\ PaymentType(s) = "60day"
           /\ s.created_date = now
           /\ s.payment_date = s.created_date + 60

\* What add_90day_payment_schedule leaves under the id of its schedule.
C31_Add90Stores ==
    \A order_id \in CounterIds, now \in Now :
        Add90DayPaymentSchedule(1, order_id, now, "ok")
        => LET s == schedules'[ScheduleId(1, order_id, now)] IN
           /\ returned' = "true"
           /\ s.status = "active"
           /\ s.payments_made = <<>>
           /\ s.created_date = now
           /\ Len(s.payment_dates) = 3
           /\ \A i \in 1..3 : s.payment_dates[i] = s.created_date + 30 * i
           /\ 3 * s.monthly_amount.whole + s.monthly_amount.thirds
                  = s.remaining_amount
           /\ s.monthly_amount.thirds \in 0..2
           /\ s.remaining_amount = 900000
                  => s.monthly_amount = [whole |-> 300000, thirds |-> 0]

\* C31: add_60day_payment_schedule persists a schedule with status active,
\* empty payments_made and one payment_date 60 days after creation;
\* add_90day_payment_schedule persists one with status active, empty
\* payments_made, monthly_amount a third of remaining_amount (exactly
\* 300,000 for 900,000) and payment_dates 30, 60 and 90 days after
\* creation.
C31_AddedSchedules ==
    [][C31_Add60Stores /\ C31_Add90Stores]_vars

\* The store holds a fresh 60-day schedule and a fresh 90-day schedule of
\* 900,000 with installments of 300,000.
C31_Witness ==
    \E k1, k2 \in DOMAIN schedules :
        /\ PaymentType(schedules[k1]) = "60day"
        /\ schedules[k1].status = "active"
        /\ PaymentType(schedules[k2]) = "90day"
        /\ schedules[k2].status = "active"
        /\ schedules[k2].payments_made = <<>>
        /\ schedules[k2].monthly_amount = [whole |-> 300000, thirds |-> 0]

\* C32: a payment schedule is created once per order and never re-created:
\* no order has more than one schedule record.
C32_OneSchedulePerOrder ==
    \A k1, k2 \in DOMAIN schedules :
        schedules[k1].order_id = schedules[k2].order_id => k1 = k2

\* A step of add_60day_payment_schedule or add_90day_payment_schedule for
\* the schedule id k that returns True.
AddReturnsTrue(k) ==
    /\ returned' = "true"
    /\ \E order_id \in CounterIds, now \in Now :
           /\ k = ScheduleId(1, order_id, now)
           /\ \/ Add60DayPaymentSchedule(1, order_id, now, "ok")
              \/ Add90DayPaymentSchedule(1, order_id, now, "ok")

\* C33: an add that returns True stores its record under a schedule_id that
\* was not in the store before, and leaves every schedule that was there
\* as it was (also for two adds with the same user_id and order_id within
\* the same second).
C33_AddNeverOverwrites ==
    [][\A k \in ScheduleIds :
           AddReturnsTrue(k)
           => /\ k \notin DOMAIN schedules
              /\ \A old \in DOMAIN schedules :
                     /\ old \in DOMAIN schedules'
                     /\ schedules'[old] = schedules[old]]_vars

\* A step of mark_payment_made, whatever its arguments.
SomeMark ==
    \E k \in ScheduleIds, n \in 0..MaxPaymentNumber :
        MarkPaymentMade(k, n, "ok")

\* A step of cancel_payment_schedule, whatever its argument.
SomeCancel ==
    \E k \in ScheduleIds : CancelPaymentSchedule(k, "ok")

IsPrefix(earlier, later) ==
    /\ Len(earlier) <= Len(later)
    /\ \A i \in 1..Len(earlier) : later[i] = earlier[i]

\* C38: a run of the invoicing write-back leaves the status of its order as
\* it is stored at that moment and keeps every history entry stored at that
\* moment, those of the update_order_status calls that completed since the
\* task was created included.
C38_WriteBackKeepsUpdates ==
    [][IsWriteBack
          => LET id == Head(tasks).order IN
             IsOrder(orders[id])
             => /\ IsOrder(orders'[id])
                /\ orders'[id].status = orders[id].status
                /\ IsPrefix(orders[id].status_history,
                            orders'[id].status_history)]_vars

\* An order was confirmed, then moved on by a later update, and the
\* write-back came last: the later status and its entry are still there.
C38_Witness ==
    \E id \in OrderIds :
        /\ IsOrder(orders[id])
        /\ tasks = <<>>
        /\ orders[id].status # "confirmed"
        /\ Len(orders[id].status_history) >= 3
        /\ IsBridgeEntry(Last(orders[id].status_history))
        /\ LET before == orders[id].status_history[Len(orders[id].status_history) - 1]
           IN /\ before.status = orders[id].status
              /\ \E i \in 1..Len(orders[id].status_history) :
                     orders[id].status_history[i].status = "confirmed"

\* C37: get_customer_orders(user_id) returns exactly the persisted orders
\* whose user_id is the argument.
C37_ListsTheUsersOrders ==
    \A user_id \in Users :
        GetCustomerOrders(orders, user_id)
            = {orders[id] : id \in {i \in OrderIds :
                                       /\ IsOrder(orders[i])
                                       /\ orders[i].user_id = user_id}}

\* The step is the end of a checkout handler that waited for create_order.
IsHandlerReturn == handled.pc = "create_order" /\ handled'.pc = "done"

\* The step empties the cart of the user.
CartCleared(user_id) == carts[user_id] # <<>> /\ carts'[user_id] = <<>>

\* A checkout handler whose create_order raised leaves the cart and the
\* session as they were.
C39_RaiseLeavesCartAndSession ==
    (IsHandlerReturn /\ calls[handled.call].result # "order_id")
    => carts' = carts /\ user_sessions' = user_sessions

\* A cart is cleared only at the end of a checkout handler whose
\* create_order returned an order id, and that order is stored with the
\* items of the cart.
C39_ClearedCartIsOrdered ==
    \A user_id \in Users :
        CartCleared(user_id)
        => /\ IsHandlerReturn
           /\ handled.user = user_id
           /\ calls[handled.call].result = "order_id"
           /\ LET id == calls[handled.call].order
              IN /\ IsOrder(orders[id])
                 /\ orders[id].user_id = user_id
                 /\ orders[id].cart_items = carts[user_id]

LinksToOrder(schedule) ==
    \E id \in OrderIds :
        /\ IsOrder(orders[id])
        /\ OrderIdText(id) = OrderIdText(schedule.order_id)

\* C34: when the checkout handlers have run, the order_id of every payment
\* schedule is the order_id of an order record in the order store.
C34_ScheduleLinksToOrder ==
    handled.pc = "done"
    => \A k \in DOMAIN schedules : LinksToOrder(schedules[k])

\* C35: pressing the 'payment made' button of a dispatched reminder applies
\* mark_payment_made to the schedule_id and payment_number of that
\* reminder: the store afterwards is the one mark_payment_made leaves.
C35_PaymentMadeButtonMarks ==
    [][\A reminder \in scanned.reminders :
           PressReminderButton(2, <<"payment", "confirmed">>, reminder)
           => schedules' = MarkedStore(schedules, reminder.schedule_id,
                                       reminder.payment_number)]_vars

\* C36: pressing the 'contact made' or the 'remind tomorrow' button of a
\* reminder changes nothing in the schedule store, and the scan of any day
\* returns afterwards what it would have returned before.
C36_InformationalButtons ==
    [][\A reminder \in scanned.reminders :
       \A button \in {<<"contact", "made">>, <<"remind", "tomorrow">>} :
           PressReminderButton(2, button, reminder)
           => /\ schedules' = schedules
              /\ \A today \in Days :
                     GetPendingReminders(schedules', today)
                         = GetPendingReminders(schedules, today)]_vars

\* Staff asked to be reminded tomorrow of an installment that is due and
\* unpaid today.
C36_Witness ==
    /\ handled.handler = "_handle_remind_tomorrow_from_group"
    /\ handled.reply = "reminder tomorrow"
    /\ scanned.today = clock
    /\ scanned.reminders # {}
    /\ GetPendingReminders(schedules, clock) = scanned.reminders

====
